---- MODULE Spec2Model ----
(***************************************************************************)
(* Navigatr: the address-bar input resolver (src/url-input.js), the        *)
(* tracker filter (src/adblock/matcher.js and the onBeforeRequest handler  *)
(* of src/main.js) and the navigation glue of src/main.js.                 *)
(*                                                                         *)
(* A JavaScript string is a sequence of code units; a code unit is a       *)
(* one-character TLA+ string, so "a.b" is <<"a", ".", "b">>.               *)
(***************************************************************************)
EXTENDS Integers, Sequences, FiniteSets, TLC

VARIABLES
  fn,                 \* the function or handler most recently invoked
  args,               \* its arguments
  result,             \* what it produced (a handler: what it answered)
  pc,                 \* "call" before the function ran, "return" after
  adblockState,       \* main.js adblockState: enabled, blockedTotal
  settings,           \* the adblock-settings.json file
  broadcast,          \* the last adblock message sent to the windows
  viewUrl,            \* context.view.webContents.getURL()
  status,             \* context.status
  loadURLCalls,       \* how often webContents.loadURL was invoked
  openExternalCalls,  \* how often shell.openExternal was invoked
  pending,            \* loads and external hand-offs not yet settled
  windows,            \* how many browser windows exist
  zoomFactor,         \* webContents.getZoomFactor() of the view and of the app
                      \* UI window, in units of 0.0001
  windowContexts,     \* the keys of the windowContexts map (renderer ids)
  contexts            \* the context objects created so far, by renderer id

callVars == <<fn, args, result, pc>>
adblockVars == <<adblockState, settings, broadcast>>
navVars == <<viewUrl, status, loadURLCalls, openExternalCalls, pending, windows>>
windowVars == <<windowContexts, contexts>>
vars == <<fn, args, result, pc, adblockState, settings, broadcast,
          viewUrl, status, loadURLCalls, openExternalCalls, pending, windows,
          zoomFactor, windowContexts, contexts>>

(***************************************************************************)
(* Code units and the String.prototype methods the sources use.            *)
(***************************************************************************)
LoneSurrogate == "U+D800"   \* an unpaired surrogate code unit
KelvinSign == "U+212A"      \* the Kelvin sign, whose lower-case form is "k"

Lower == <<"a", "b", "c", "d", "e", "f", "g", "h", "i", "j", "k", "l", "m", "n", "o", "p", "q", "r", "s", "t", "u", "v", "w", "x", "y", "z">>
Upper == <<"A", "B", "C", "D", "E", "F", "G", "H", "I", "J", "K", "L", "M", "N", "O", "P", "Q", "R", "S", "T", "U", "V", "W", "X", "Y", "Z">>
DigitSeq == <<"0", "1", "2", "3", "4", "5", "6", "7", "8", "9">>
HexSeq == <<"0", "1", "2", "3", "4", "5", "6", "7", "8", "9", "a", "b", "c", "d", "e", "f">>

Range(s) == {s[i] : i \in 1..Len(s)}

LowerSet == Range(Lower)
UpperSet == Range(Upper)
Letters == LowerSet \cup UpperSet
Digits == Range(DigitSeq)
HexDigits == Range(HexSeq)

\* The code units of the model that JavaScript's \s and trim() treat as white
\* space, and those its "." refuses (line terminators).
WhiteSpace == {" ", "\t", "\n"}
LineTerminators == {"\n"}

\* The upper-case letters' lower-case forms.
LowerOf == [c \in UpperSet |-> Lower[CHOOSE i \in 1..26 : Upper[i] = c]]

IndexOf(c, s) == CHOOSE i \in 1..Len(s) : s[i] = c

toLowerCaseChar(c) ==
  IF c \in UpperSet THEN LowerOf[c] ELSE IF c = KelvinSign THEN "k" ELSE c

toLowerCase(s) == [i \in 1..Len(s) |-> toLowerCaseChar(s[i])]

\* The answer of a scan of lo..hi from the answers of its two halves: that of
\* the half scanned first when it lies in that half, else that of the other.
FirstOf(first, lo, hi, other) == IF lo <= first /\ first <= hi THEN first ELSE other

\* The least index of lo..hi whose code unit is in S, hi + 1 when there is none.
RECURSIVE FirstInRange(_, _, _, _)
FirstInRange(s, lo, hi, S) ==
  IF lo > hi THEN hi + 1
  ELSE IF lo = hi THEN (IF s[lo] \in S THEN lo ELSE hi + 1)
  ELSE FirstOf(FirstInRange(s, lo, (lo + hi) \div 2, S), lo, (lo + hi) \div 2,
               FirstInRange(s, (lo + hi) \div 2 + 1, hi, S))

\* The least index of lo..hi whose code unit is not in S, hi + 1 when there is none.
RECURSIVE FirstNotInRange(_, _, _, _)
FirstNotInRange(s, lo, hi, S) ==
  IF lo > hi THEN hi + 1
  ELSE IF lo = hi THEN (IF s[lo] \notin S THEN lo ELSE hi + 1)
  ELSE FirstOf(FirstNotInRange(s, lo, (lo + hi) \div 2, S), lo, (lo + hi) \div 2,
               FirstNotInRange(s, (lo + hi) \div 2 + 1, hi, S))

\* The greatest index of lo..hi whose code unit is not in S, lo - 1 when there is none.
RECURSIVE LastNotInRange(_, _, _, _)
LastNotInRange(s, lo, hi, S) ==
  IF lo > hi THEN lo - 1
  ELSE IF lo = hi THEN (IF s[lo] \notin S THEN lo ELSE lo - 1)
  ELSE FirstOf(LastNotInRange(s, (lo + hi) \div 2 + 1, hi, S), (lo + hi) \div 2 + 1, hi,
               LastNotInRange(s, lo, (lo + hi) \div 2, S))

\* The least index >= from whose code unit is in S, Len(s) + 1 when there is none.
FirstIn(s, from, S) == FirstInRange(s, from, Len(s), S)

\* The least index >= from whose code unit is not in S, Len(s) + 1 when there is none.
FirstNotIn(s, from, S) == FirstNotInRange(s, from, Len(s), S)

\* The greatest index <= from whose code unit is not in S, 0 when there is none.
LastNotIn(s, from, S) == LastNotInRange(s, 1, from, S)

includes(s, c) == \E i \in 1..Len(s) : s[i] = c

startsWith(s, p) == Len(p) <= Len(s) /\ SubSeq(s, 1, Len(p)) = p

endsWith(s, p) == Len(p) <= Len(s) /\ SubSeq(s, Len(s) - Len(p) + 1, Len(s)) = p

trim_SpacesOnly(s) == SubSeq(s, FirstNotIn(s, 1, {" "}), LastNotIn(s, Len(s), {" "}))

trim(s) == SubSeq(s, FirstNotIn(s, 1, WhiteSpace), LastNotIn(s, Len(s), WhiteSpace))

RECURSIVE split(_, _)
split(s, c) ==
  LET k == FirstIn(s, 1, {c})
  IN IF k > Len(s) THEN <<s>>
     ELSE <<SubSeq(s, 1, k - 1)>> \o split(SubSeq(s, k + 1, Len(s)), c)

(***************************************************************************)
(* JavaScript values: a string, null or undefined; a thrown error.         *)
(***************************************************************************)
Null == [t |-> "null"]
Undefined == [t |-> "undefined"]
Str(s) == [t |-> "string", s |-> s]
Bool(b) == [t |-> "boolean", b |-> b]
Thrown(name) == [t |-> "throw", error |-> name]

(***************************************************************************)
(* src/url-input.js                                                        *)
(***************************************************************************)
DEFAULT_SEARCH_URL == <<"h", "t", "t", "p", "s", ":", "/", "/", "d", "u", "c", "k", "d", "u", "c", "k", "g", "o", ".", "c", "o", "m", "/", "?", "q", "=">>

SchemeChars == Letters \cup Digits \cup {"+", ".", "-"}

\* /^[a-zA-Z][a-zA-Z0-9+.-]*:/ : the index of the colon that ends the match, 0
\* when the expression does not match.
SchemeEnd(value) ==
  IF Len(value) >= 1 /\ value[1] \in Letters
  THEN LET k == FirstNotIn(value, 2, SchemeChars)
       IN IF k <= Len(value) /\ value[k] = ":" THEN k ELSE 0
  ELSE 0

URI_SCHEME_RE(value) == SchemeEnd(value) > 0

URI_SCHEME_WITH_AUTHORITY_RE(value) ==
  LET k == SchemeEnd(value)
  IN k > 0 /\ k + 2 <= Len(value) /\ value[k + 1] = "/" /\ value[k + 2] = "/"

\* The host group, first alternative: \[[^\]\s]+\] ; the index of its last code
\* unit, 0 when it does not match at the start.
BracketHostEnd(value) ==
  IF Len(value) >= 1 /\ value[1] = "["
  THEN LET k == FirstIn(value, 2, {"]"} \cup WhiteSpace)
       IN IF k <= Len(value) /\ value[k] = "]" /\ k >= 3 THEN k ELSE 0
  ELSE 0

\* The host group, second alternative: [^:/?#\s]+ (greedy; what follows it in
\* either expression starts with a code unit the class excludes, or is the end).
PlainHostEnd(value) == FirstIn(value, 1, {":", "/", "?", "#"} \cup WhiteSpace) - 1

\* (?<suffix>[/?#].*)?$ matched from index e on.
SuffixAt(value, e) ==
  \/ e = Len(value) + 1
  \/ /\ e <= Len(value)
     /\ value[e] \in {"/", "?", "#"}
     /\ \A j \in (e + 1)..Len(value) : value[j] \notin LineTerminators

\* :(?<port>\d+)(?<suffix>[/?#].*)?$ matched right after index h.
PortAndSuffixAt(value, h) ==
  /\ h + 1 <= Len(value)
  /\ value[h + 1] = ":"
  /\ LET e == FirstNotIn(value, h + 2, Digits)
     IN e > h + 2 /\ SuffixAt(value, e)

NoMatch == [matched |-> FALSE, host |-> <<>>]
Match(value, h) == [matched |-> TRUE, host |-> SubSeq(value, 1, h)]

HOST_PORT_RE(value) ==
  LET b == BracketHostEnd(value)
      p == PlainHostEnd(value)
  IN IF b > 0 /\ PortAndSuffixAt(value, b) THEN Match(value, b)
     ELSE IF p > 0 /\ PortAndSuffixAt(value, p) THEN Match(value, p)
     ELSE NoMatch

HOST_RE(value) ==
  LET b == BracketHostEnd(value)
      p == PlainHostEnd(value)
  IN IF b > 0 /\ SuffixAt(value, b + 1) THEN Match(value, b)
     ELSE IF p > 0 /\ SuffixAt(value, p + 1) THEN Match(value, p)
     ELSE NoMatch

\* Number(part) for a part of decimal digits, as far as the comparison with 255
\* needs it: 256 stands for every larger value.
RECURSIVE Number(_)
Number(part) ==
  IF part = <<>> THEN 0
  ELSE LET n == Number(SubSeq(part, 1, Len(part) - 1)) * 10
                + (IndexOf(part[Len(part)], DigitSeq) - 1)
       IN IF n > 255 THEN 256 ELSE n

NoOctets == <<>>

parseIpv4(host) ==
  LET parts == split(host, ".")
  IN IF Len(parts) # 4 THEN NoOctets
     ELSE IF \E i \in 1..4 : parts[i] = <<>> \/ Range(parts[i]) \ Digits # {}
     THEN NoOctets
     ELSE IF \E i \in 1..4 : Number(parts[i]) > 255 THEN NoOctets
     ELSE [i \in 1..4 |-> Number(parts[i])]

HostnameChars == Letters \cup Digits \cup {"-"}

\* isHostnameWithDot with the label bound off by one (a label of 63 refused).
isHostnameWithDot_Short(host) ==
  IF ~includes(host, ".") \/ Len(host) > 253 THEN FALSE
  ELSE LET labels == split(host, ".")
       IN \A i \in 1..Len(labels) :
            /\ labels[i] # <<>>
            /\ Len(labels[i]) < 63
            /\ Range(labels[i]) \subseteq Letters \cup Digits \cup {"-"}
            /\ labels[i][1] # "-"
            /\ labels[i][Len(labels[i])] # "-"

isHostnameWithDot(host) ==
  IF ~includes(host, ".") \/ Len(host) > 253 THEN FALSE
  ELSE LET labels == split(host, ".")
       IN \A i \in 1..Len(labels) :
            /\ labels[i] # <<>>
            /\ Len(labels[i]) <= 63
            /\ Range(labels[i]) \subseteq HostnameChars
            /\ labels[i][1] # "-"
            /\ labels[i][Len(labels[i])] # "-"

Ipv6Chars == Digits \cup {"a", "b", "c", "d", "e", "f", "A", "B", "C", "D", "E", "F", ":", ".", "%"}

isBracketedIpv6(host) ==
  IF Len(host) = 0 \/ host[1] # "[" \/ host[Len(host)] # "]" THEN FALSE
  ELSE LET inner == SubSeq(host, 2, Len(host) - 1)
       IN IF inner = <<>> \/ ~includes(inner, ":") THEN FALSE
          ELSE Range(inner) \subseteq Ipv6Chars

NoHostInfo == [type |-> "null"]

parseHostInfo(host) ==
  LET lowerHost == toLowerCase(host)
  IN IF lowerHost = <<"l", "o", "c", "a", "l", "h", "o", "s", "t">> THEN [type |-> "localhost"]
     ELSE IF parseIpv4(lowerHost) # NoOctets
     THEN [type |-> "ipv4", octets |-> parseIpv4(lowerHost)]
     ELSE IF isBracketedIpv6(host)
     THEN [type |-> "ipv6", value |-> toLowerCase(SubSeq(host, 2, Len(host) - 1))]
     ELSE IF isHostnameWithDot(lowerHost) THEN [type |-> "hostname"]
     ELSE NoHostInfo

parseHostPortShorthand(value) ==
  IF includes(value, " ") THEN NoHostInfo
  ELSE LET match == HOST_PORT_RE(value)
       IN IF ~match.matched THEN NoHostInfo ELSE parseHostInfo(match.host)

\* parseHostTarget that takes the whole value for the host (no suffix).
parseHostTarget_HostOnly(value) ==
  IF includes(value, " ") THEN NoHostInfo ELSE parseHostInfo(value)

parseHostTarget(value) ==
  IF includes(value, " ") THEN NoHostInfo
  ELSE LET match == HOST_RE(value)
       IN IF ~match.matched THEN NoHostInfo ELSE parseHostInfo(match.host)

\* isLocalIpv4 with the 172 range one too wide (172.16 to 172.32).
isLocalIpv4_WideRange(octets) ==
  LET a == octets[1]
      b == octets[2]
  IN \/ a = 0 \/ a = 10 \/ a = 127
     \/ a = 172 /\ b >= 16 /\ b <= 32
     \/ a = 192 /\ b = 168
     \/ a = 169 /\ b = 254

isLocalIpv4(octets) ==
  LET a == octets[1]
      b == octets[2]
  IN \/ a = 0 \/ a = 10 \/ a = 127
     \/ a = 172 /\ b >= 16 /\ b <= 31
     \/ a = 192 /\ b = 168
     \/ a = 169 /\ b = 254

\* Number.parseInt(segment, 16) modulo 2^16 (the masks below read no higher
\* bit), -1 for NaN; the segment is lower case and holds no sign or "x".
RECURSIVE HexValue(_)
HexValue(digits) ==
  IF digits = <<>> THEN 0
  ELSE (HexValue(SubSeq(digits, 1, Len(digits) - 1)) * 16
        + (IndexOf(digits[Len(digits)], HexSeq) - 1)) % 65536

parseInt16(segment) ==
  LET e == FirstNotIn(segment, 1, HexDigits)
  IN IF e = 1 THEN -1 ELSE HexValue(SubSeq(segment, 1, e - 1))

\* value & mask for a mask that clears the low `low` bits and keeps the rest of
\* the low 16.
MaskHigh(value, low) == (value \div low) * low

isLocalIpv6(value) ==
  LET normalized == toLowerCase(split(value, "%")[1])
      segments == split(normalized, ":")
      nonEmpty == {i \in 1..Len(segments) : segments[i] # <<>>}
      firstSegment == IF nonEmpty = {} THEN <<"0">>
                      ELSE segments[CHOOSE i \in nonEmpty : \A j \in nonEmpty : i <= j]
      firstValue == parseInt16(firstSegment)
  IN IF normalized = <<":", ":">> \/ normalized = <<":", ":", "1">> THEN TRUE
     ELSE IF firstValue = -1 THEN FALSE
     ELSE \/ MaskHigh(firstValue, 512) = 64512     \* (v & 0xfe00) === 0xfc00
          \/ MaskHigh(firstValue, 64) = 65152      \* (v & 0xffc0) === 0xfe80

isLocalHostInfo(hostInfo) ==
  IF hostInfo = NoHostInfo THEN FALSE
  ELSE IF hostInfo.type = "localhost" THEN TRUE
  ELSE IF hostInfo.type = "ipv4" THEN isLocalIpv4(hostInfo.octets)
  ELSE IF hostInfo.type = "ipv6" THEN isLocalIpv6(hostInfo.value)
  ELSE FALSE

\* isExplicitUri that asks for the authority marker, as the older renderer did.
isExplicitUri_AuthorityOnly(value) == URI_SCHEME_WITH_AUTHORITY_RE(value)

isExplicitUri(value) == URI_SCHEME_WITH_AUTHORITY_RE(value) \/ URI_SCHEME_RE(value)

looksLikeDomainTarget(value) ==
  LET hostInfo == parseHostTarget(value)
  IN IF hostInfo = NoHostInfo THEN FALSE ELSE hostInfo.type # "localhost"

\* encodeURIComponent: the unreserved code units stay, every other one becomes
\* the %XX of its UTF-8 octets, and an unpaired surrogate throws URIError.
Unreserved == Letters \cup Digits \cup {"-", "_", ".", "!", "~", "*", "'", "(", ")"}

PercentEncode(c) ==
  CASE c = " " -> <<"%", "2", "0">>
    [] c = "\t" -> <<"%", "0", "9">>
    [] c = "\n" -> <<"%", "0", "A">>
    [] c = "#" -> <<"%", "2", "3">>
    [] c = "%" -> <<"%", "2", "5">>
    [] c = "&" -> <<"%", "2", "6">>
    [] c = "+" -> <<"%", "2", "B">>
    [] c = "/" -> <<"%", "2", "F">>
    [] c = ":" -> <<"%", "3", "A">>
    [] c = "=" -> <<"%", "3", "D">>
    [] c = "?" -> <<"%", "3", "F">>
    [] c = "@" -> <<"%", "4", "0">>
    [] c = "[" -> <<"%", "5", "B">>
    [] c = "]" -> <<"%", "5", "D">>

\* The units of s encoded one by one, the two halves of s in turn.
RECURSIVE EncodeUnits(_)
EncodeUnits(s) ==
  IF s = <<>> THEN <<>>
  ELSE IF Len(s) = 1
  THEN (IF s[1] \in Unreserved THEN <<s[1]>> ELSE PercentEncode(s[1]))
  ELSE EncodeUnits(SubSeq(s, 1, Len(s) \div 2))
       \o EncodeUnits(SubSeq(s, Len(s) \div 2 + 1, Len(s)))

encodeURIComponent(s) ==
  IF includes(s, LoneSurrogate) THEN Thrown("URIError") ELSE Str(EncodeUnits(s))

\* normalizeInput with the explicit-URI rule tried before the shorthand rule.
normalizeInput_ExplicitFirst(rawValue, optSearchUrl) ==
  LET value == trim(IF rawValue.t = "string" THEN rawValue.s ELSE <<>>)
      search == IF optSearchUrl = <<>> THEN DEFAULT_SEARCH_URL ELSE optSearchUrl
      shorthandHost == parseHostPortShorthand(value)
  IN IF value = <<>> THEN Null
     ELSE IF isExplicitUri(value) THEN Str(value)
     ELSE IF shorthandHost # NoHostInfo
     THEN Str((IF isLocalHostInfo(shorthandHost) THEN <<"h", "t", "t", "p", ":", "/", "/">> ELSE <<"h", "t", "t", "p", "s", ":", "/", "/">>) \o value)
     ELSE IF isLocalHostInfo(parseHostTarget(value)) THEN Str(<<"h", "t", "t", "p", ":", "/", "/">> \o value)
     ELSE IF looksLikeDomainTarget(value) THEN Str(<<"h", "t", "t", "p", "s", ":", "/", "/">> \o value)
     ELSE LET encoded == encodeURIComponent(value)
          IN IF encoded.t = "throw" THEN encoded ELSE Str(search \o encoded.s)

\* normalizeInput that hands a public bare host on without a scheme.
normalizeInput_NoPrefix(rawValue, optSearchUrl) ==
  LET value == trim(IF rawValue.t = "string" THEN rawValue.s ELSE <<>>)
      search == IF optSearchUrl = <<>> THEN DEFAULT_SEARCH_URL ELSE optSearchUrl
      shorthandHost == parseHostPortShorthand(value)
  IN IF value = <<>> THEN Null
     ELSE IF shorthandHost # NoHostInfo
     THEN Str((IF isLocalHostInfo(shorthandHost) THEN <<"h", "t", "t", "p", ":", "/", "/">> ELSE <<"h", "t", "t", "p", "s", ":", "/", "/">>) \o value)
     ELSE IF isExplicitUri(value) THEN Str(value)
     ELSE IF isLocalHostInfo(parseHostTarget(value)) THEN Str(<<"h", "t", "t", "p", ":", "/", "/">> \o value)
     ELSE IF looksLikeDomainTarget(value) THEN Str(value)
     ELSE LET encoded == encodeURIComponent(value)
          IN IF encoded.t = "throw" THEN encoded ELSE Str(search \o encoded.s)

\* String(raw ?? "")
ToStringOrEmpty(v) == IF v.t = "string" THEN v.s ELSE <<>>

normalizeInput(rawValue, optSearchUrl) ==
  LET value == trim(ToStringOrEmpty(rawValue))
      search == IF optSearchUrl = <<>> THEN DEFAULT_SEARCH_URL ELSE optSearchUrl
      shorthandHost == parseHostPortShorthand(value)
  IN IF value = <<>> THEN Null
     ELSE IF shorthandHost # NoHostInfo
     THEN Str((IF isLocalHostInfo(shorthandHost) THEN <<"h", "t", "t", "p", ":", "/", "/">> ELSE <<"h", "t", "t", "p", "s", ":", "/", "/">>) \o value)
     ELSE IF isExplicitUri(value) THEN Str(value)
     ELSE IF isLocalHostInfo(parseHostTarget(value)) THEN Str(<<"h", "t", "t", "p", ":", "/", "/">> \o value)
     ELSE IF looksLikeDomainTarget(value) THEN Str(<<"h", "t", "t", "p", "s", ":", "/", "/">> \o value)
     ELSE LET encoded == encodeURIComponent(value)
          IN IF encoded.t = "throw" THEN encoded ELSE Str(search \o encoded.s)

(***************************************************************************)
(* new URL(input).hostname, as far as the sources use it (WHATWG URL, no   *)
(* base URL).  Covered: the scheme, the special schemes' authority with    *)
(* user info and port, opaque paths, and hosts that are ASCII domains.     *)
(* Not covered (the model draws no such input): "\", "%" and "[" in a      *)
(* host, file: URLs, non-ASCII hosts, and hosts whose last label is a      *)
(* number other than a canonical dotted quad.                              *)
(***************************************************************************)
SpecialSchemes == { <<"h", "t", "t", "p">>, <<"h", "t", "t", "p", "s">>, <<"w", "s">>, <<"w", "s", "s">>, <<"f", "t", "p">> }

\* Forbidden host code points, among the code units of the model.
ForbiddenHostUnits == {" ", "#", "/", ":", "?", "@", "<", ">", "^", "|", LoneSurrogate}

NoUrl == [ok |-> FALSE, hostname |-> <<>>]
Url(h) == [ok |-> TRUE, hostname |-> h]

RemoveTabNewline(s) == SelectSeq(s, LAMBDA c : c \notin {"\t", "\n"})

LastIndexOf(s, c) ==
  IF \A i \in 1..Len(s) : s[i] # c THEN 0
  ELSE CHOOSE i \in 1..Len(s) :
         s[i] = c /\ \A j \in (i + 1)..Len(s) : s[j] # c

\* A port: decimal digits, at most 65535 (the empty port is allowed).
RECURSIVE PortValue(_)
PortValue(digits) ==
  IF digits = <<>> THEN 0
  ELSE LET n == PortValue(SubSeq(digits, 1, Len(digits) - 1)) * 10
                + (IndexOf(digits[Len(digits)], DigitSeq) - 1)
       IN IF n > 65535 THEN 65536 ELSE n

ValidPort(port) == Range(port) \subseteq Digits /\ PortValue(port) <= 65535

\* The host parser on an ASCII domain: lower case for a special scheme, the
\* host as it is (opaque) otherwise.
HostOfAuthority(authority, special) ==
  LET at == LastIndexOf(authority, "@")
      hostport == SubSeq(authority, at + 1, Len(authority))
      c == FirstIn(hostport, 1, {":"})
      host == SubSeq(hostport, 1, c - 1)
      port == SubSeq(hostport, c + 1, Len(hostport))
  IN IF at > 0 /\ hostport = <<>> THEN NoUrl
     ELSE IF special /\ host = <<>> THEN NoUrl
     ELSE IF ~ValidPort(port) THEN NoUrl
     ELSE IF Range(host) \cap ForbiddenHostUnits # {} THEN NoUrl
     ELSE IF special THEN Url(toLowerCase(host))
     ELSE Url(host)

ParseUrl(input) ==
  LET in == RemoveTabNewline(trim(input))
      k == SchemeEnd(in)
      scheme == toLowerCase(SubSeq(in, 1, k - 1))
      rest == SubSeq(in, k + 1, Len(in))
  IN IF k = 0 THEN NoUrl
     ELSE IF scheme \in SpecialSchemes
     THEN LET a == FirstNotIn(rest, 1, {"/"})
              e == FirstIn(rest, a, {"/", "?", "#"})
          IN HostOfAuthority(SubSeq(rest, a, e - 1), TRUE)
     ELSE IF startsWith(rest, <<"/", "/">>)
     THEN LET e == FirstIn(rest, 3, {"/", "?", "#"})
          IN HostOfAuthority(SubSeq(rest, 3, e - 1), FALSE)
     ELSE Url(<<>>)

(***************************************************************************)
(* new URL(input).origin: scheme://host[:port] for the special schemes     *)
(* (the default port left out), the origin of the URL in its path for a    *)
(* blob: URL when that one is http or https, and "null" otherwise.         *)
(***************************************************************************)
NoOrigin == [ok |-> FALSE, origin |-> <<>>]

OpaqueOrigin == [ok |-> TRUE, origin |-> <<"n", "u", "l", "l">>]

DefaultPort(scheme) ==
  IF scheme \in {<<"h", "t", "t", "p">>, <<"w", "s">>} THEN <<"8", "0">>
  ELSE IF scheme \in {<<"h", "t", "t", "p", "s">>, <<"w", "s", "s">>} THEN <<"4", "4", "3">>
  ELSE <<"2", "1">>

\* The port of an authority as the serializer writes it: no leading zeros.
SerializePort(port) ==
  LET k == FirstNotIn(port, 1, {"0"})
  IN IF port = <<>> THEN <<>>
     ELSE IF k > Len(port) THEN <<"0">>
     ELSE SubSeq(port, k, Len(port))

PortOfAuthority(authority) ==
  LET at == LastIndexOf(authority, "@")
      hostport == SubSeq(authority, at + 1, Len(authority))
      c == FirstIn(hostport, 1, {":"})
  IN SerializePort(SubSeq(hostport, c + 1, Len(hostport)))

\* The origin of a URL of a special scheme, given what follows "scheme:".
SpecialOrigin(scheme, rest) ==
  LET a == FirstNotIn(rest, 1, {"/"})
      e == FirstIn(rest, a, {"/", "?", "#"})
      authority == SubSeq(rest, a, e - 1)
      u == HostOfAuthority(authority, TRUE)
      port == PortOfAuthority(authority)
  IN IF ~u.ok THEN NoOrigin
     ELSE [ok |-> TRUE,
           origin |-> scheme \o <<":", "/", "/">> \o u.hostname
                        \o (IF port = <<>> \/ port = DefaultPort(scheme)
                            THEN <<>> ELSE <<":">> \o port)]

\* The origin of a blob: URL, given its path.
BlobOrigin(path) ==
  LET in == RemoveTabNewline(trim(path))
      k == SchemeEnd(in)
      scheme == toLowerCase(SubSeq(in, 1, k - 1))
      inner == SpecialOrigin(scheme, SubSeq(in, k + 1, Len(in)))
  IN IF k > 0 /\ scheme \in {<<"h", "t", "t", "p">>, <<"h", "t", "t", "p", "s">>} /\ inner.ok THEN inner
     ELSE OpaqueOrigin

Origin(input) ==
  LET in == RemoveTabNewline(trim(input))
      k == SchemeEnd(in)
      scheme == toLowerCase(SubSeq(in, 1, k - 1))
      rest == SubSeq(in, k + 1, Len(in))
  IN IF k = 0 THEN NoOrigin
     ELSE IF scheme \in SpecialSchemes THEN SpecialOrigin(scheme, rest)
     ELSE IF startsWith(rest, <<"/", "/">>)
     THEN LET e == FirstIn(rest, 3, {"/", "?", "#"})
          IN IF HostOfAuthority(SubSeq(rest, 3, e - 1), FALSE).ok
             THEN OpaqueOrigin ELSE NoOrigin
     ELSE IF scheme = <<"b", "l", "o", "b">>
     THEN BlobOrigin(SubSeq(rest, 1, FirstIn(rest, 1, {"?", "#"}) - 1))
     ELSE OpaqueOrigin

(***************************************************************************)
(* src/adblock/blocklist.js and src/adblock/matcher.js                     *)
(***************************************************************************)
BLOCKED_DOMAINS ==
  { <<"d", "o", "u", "b", "l", "e", "c", "l", "i", "c", "k", ".", "n", "e", "t">>,
    <<"g", "o", "o", "g", "l", "e", "s", "y", "n", "d", "i", "c", "a", "t", "i", "o", "n", ".", "c", "o", "m">>,
    <<"g", "o", "o", "g", "l", "e", "a", "d", "s", "e", "r", "v", "i", "c", "e", "s", ".", "c", "o", "m">>,
    <<"a", "d", "s", "e", "r", "v", "i", "c", "e", ".", "g", "o", "o", "g", "l", "e", ".", "c", "o", "m">>,
    <<"a", "d", "s", "e", "r", "v", "i", "c", "e", ".", "g", "o", "o", "g", "l", "e", ".", "c", "o", ".", "u", "k">>,
    <<"a", "d", "s", ".", "y", "a", "h", "o", "o", ".", "c", "o", "m">>,
    <<"a", "d", "n", "x", "s", ".", "c", "o", "m">>,
    <<"c", "r", "i", "t", "e", "o", ".", "c", "o", "m">>,
    <<"t", "a", "b", "o", "o", "l", "a", ".", "c", "o", "m">>,
    <<"o", "u", "t", "b", "r", "a", "i", "n", ".", "c", "o", "m">>,
    <<"s", "c", "o", "r", "e", "c", "a", "r", "d", "r", "e", "s", "e", "a", "r", "c", "h", ".", "c", "o", "m">>,
    <<"q", "u", "a", "n", "t", "s", "e", "r", "v", "e", ".", "c", "o", "m">>,
    <<"z", "e", "d", "o", ".", "c", "o", "m">>,
    <<"r", "u", "b", "i", "c", "o", "n", "p", "r", "o", "j", "e", "c", "t", ".", "c", "o", "m">>,
    <<"p", "u", "b", "m", "a", "t", "i", "c", ".", "c", "o", "m">>,
    <<"o", "p", "e", "n", "x", ".", "n", "e", "t">>,
    <<"m", "o", "a", "t", "a", "d", "s", ".", "c", "o", "m">>,
    <<"a", "d", "s", "r", "v", "r", ".", "o", "r", "g">>,
    <<"t", "r", "a", "c", "k", "e", "r", ".", "e", "x", "a", "m", "p", "l", "e", ".", "c", "o", "m">>,
    <<"g", "o", "o", "g", "l", "e", "t", "a", "g", "m", "a", "n", "a", "g", "e", "r", ".", "c", "o", "m">>,
    <<"g", "o", "o", "g", "l", "e", "-", "a", "n", "a", "l", "y", "t", "i", "c", "s", ".", "c", "o", "m">>,
    <<"a", "n", "a", "l", "y", "t", "i", "c", "s", ".", "g", "o", "o", "g", "l", "e", ".", "c", "o", "m">>,
    <<"f", "a", "c", "e", "b", "o", "o", "k", ".", "n", "e", "t">>,
    <<"c", "o", "n", "n", "e", "c", "t", ".", "f", "a", "c", "e", "b", "o", "o", "k", ".", "n", "e", "t">>,
    <<"p", "i", "x", "e", "l", ".", "f", "a", "c", "e", "b", "o", "o", "k", ".", "c", "o", "m">> }

BLOCKED_DOMAIN_SET == BLOCKED_DOMAINS

normalizeHost(host) ==
  IF host.t # "string" THEN Null
  ELSE LET trimmed == toLowerCase(trim(host.s))
       IN IF trimmed = <<>> THEN Null
          ELSE IF endsWith(trimmed, <<".">>)
          THEN Str(SubSeq(trimmed, 1, Len(trimmed) - 1))
          ELSE Str(trimmed)

\* extractHostname without the retry behind "http://".
extractHostname_NoRetry(urlOrOrigin) ==
  IF urlOrOrigin.t # "string" THEN Null
  ELSE LET value == trim(urlOrOrigin.s)
           first == ParseUrl(value)
       IN IF value = <<>> \/ value = <<"n", "u", "l", "l">> THEN Null
          ELSE IF first.ok THEN normalizeHost(Str(first.hostname))
          ELSE Null

extractHostname(urlOrOrigin) ==
  IF urlOrOrigin.t # "string" THEN Null
  ELSE LET value == trim(urlOrOrigin.s)
           first == ParseUrl(value)
           second == ParseUrl(<<"h", "t", "t", "p", ":", "/", "/">> \o value)
       IN IF value = <<>> \/ value = <<"n", "u", "l", "l">> THEN Null
          ELSE IF first.ok THEN normalizeHost(Str(first.hostname))
          ELSE IF second.ok THEN normalizeHost(Str(second.hostname))
          ELSE Null

\* normalizeHost(x) is falsy: null, or (never, after normalizeHost) "".
Falsy(v) == v.t # "string" \/ v.s = <<>>

\* isSubdomainOrSame that matches equal hosts only (the suffix test dropped).
isSubdomainOrSame_ExactOnly(host, candidate) ==
  LET normalizedHost == normalizeHost(host)
      normalizedCandidate == normalizeHost(candidate)
  IN IF Falsy(normalizedHost) \/ Falsy(normalizedCandidate) THEN FALSE
     ELSE normalizedHost.s = normalizedCandidate.s

isSubdomainOrSame(host, candidate) ==
  LET normalizedHost == normalizeHost(host)
      normalizedCandidate == normalizeHost(candidate)
  IN IF Falsy(normalizedHost) \/ Falsy(normalizedCandidate) THEN FALSE
     ELSE \/ normalizedHost.s = normalizedCandidate.s
          \/ endsWith(normalizedHost.s, <<".">> \o normalizedCandidate.s)

\* isSameSite that looks in one direction only.
isSameSite_OneWay(hostA, hostB) == isSubdomainOrSame(hostA, hostB)

isSameSite(hostA, hostB) == isSubdomainOrSame(hostA, hostB) \/ isSubdomainOrSame(hostB, hostA)

isBlockedHost(host) ==
  LET normalizedHost == normalizeHost(host)
  IN IF Falsy(normalizedHost) THEN FALSE
     ELSE \E blockedDomain \in BLOCKED_DOMAIN_SET :
            isSubdomainOrSame(normalizedHost, Str(blockedDomain))

(***************************************************************************)
(* src/main.js: the tracker filter (setupAdblock).                         *)
(***************************************************************************)
\* The state main.js starts in, before a window exists.
BrowserAtLaunch ==
  /\ adblockState = [enabled |-> TRUE, blockedTotal |-> 0]
  /\ settings = "absent"
  /\ broadcast = [channel |-> "none"]
  /\ viewUrl = <<>>
  /\ status = "Ready"
  /\ loadURLCalls = 0
  /\ openExternalCalls = 0
  /\ pending = {}
  /\ windows = 0
  /\ zoomFactor = [view |-> 10000, app |-> 10000]
  /\ windowContexts = {}
  /\ contexts = <<>>

getAdblockState == [enabled |-> adblockState.enabled, blockedTotal |-> adblockState.blockedTotal]

\* loadSettings().enabled for the settings file: its "enabled" when the file
\* parses and holds a boolean there, DEFAULT_SETTINGS.enabled otherwise.
loadSettings(file) == [enabled |-> IF file = "false" THEN FALSE ELSE TRUE]

\* saveSettings: the file after the write.
saveSettings(enabled) == IF enabled THEN "true" ELSE "false"

\* /^https?:/i
HttpRe(url) ==
  startsWith(toLowerCase(url), <<"h", "t", "t", "p", ":">>) \/ startsWith(toLowerCase(url), <<"h", "t", "t", "p", "s", ":">>)

\* A value is truthy (for ||): a non-empty string.
Truthy(v) == v.t = "string" /\ v.s # <<>>

\* webContents.fromId(details.webContentsId)?.getURL()
SourceUrl(webContentsId, currentViewUrl) ==
  IF webContentsId = "view" THEN Str(currentViewUrl) ELSE Undefined

PassThrough_IgnoresMainFrame(enabled, details) ==
  \/ ~enabled
  \/ ~HttpRe(details.url)

\* Lines 47-60: the request is answered without being evaluated.
PassThrough(enabled, details) ==
  \/ ~enabled
  \/ ~HttpRe(details.url)
  \/ details.resourceType = "mainFrame"

\* Lines 68-72.
InitiatorHost(details, currentViewUrl) ==
  LET initiatorHost ==
        extractHostname(IF Truthy(details.initiator) THEN details.initiator
                        ELSE details.referrer)
  IN IF Falsy(initiatorHost) /\ details.webContentsId # "none"
     THEN extractHostname(SourceUrl(details.webContentsId, currentViewUrl))
     ELSE initiatorHost

FirstParty_SubdomainOnly(requestHost, initiatorHost) ==
  Falsy(initiatorHost) \/ isSubdomainOrSame(requestHost, initiatorHost)

FirstParty_NoNullCheck(requestHost, initiatorHost) ==
  isSameSite(requestHost, initiatorHost)

\* Line 74.
FirstParty(requestHost, initiatorHost) ==
  Falsy(initiatorHost) \/ isSameSite(requestHost, initiatorHost)

\* onBeforeRequest without the return of the mainFrame branch: the handler
\* answers and goes on to evaluate the request.
onBeforeRequest_FallsThrough(state, details, currentViewUrl) ==
  LET requestHost == extractHostname(Str(details.url))
      allow == [callbacks |-> <<[cancel |-> FALSE]>>, state |-> state, blocked |-> FALSE]
      evaluated ==
        IF Falsy(requestHost) \/ ~isBlockedHost(requestHost) THEN allow
        ELSE IF FirstParty(requestHost, InitiatorHost(details, currentViewUrl)) THEN allow
        ELSE [callbacks |-> <<[cancel |-> TRUE]>>,
              state |-> [state EXCEPT !.blockedTotal = @ + 1],
              blocked |-> TRUE]
  IN IF ~state.enabled \/ ~HttpRe(details.url) THEN allow
     ELSE IF details.resourceType = "mainFrame"
     THEN [evaluated EXCEPT !.callbacks = <<[cancel |-> FALSE]>> \o @]
     ELSE evaluated

onBeforeRequest_CountsFirstParty(state, details, currentViewUrl) ==
  LET requestHost == extractHostname(Str(details.url))
      allow == [callbacks |-> <<[cancel |-> FALSE]>>, state |-> state, blocked |-> FALSE]
  IN IF PassThrough(state.enabled, details) THEN allow
     ELSE IF Falsy(requestHost) \/ ~isBlockedHost(requestHost) THEN allow
     ELSE IF FirstParty(requestHost, InitiatorHost(details, currentViewUrl))
     THEN [allow EXCEPT !.state = [state EXCEPT !.blockedTotal = @ + 1]]
     ELSE [callbacks |-> <<[cancel |-> TRUE]>>,
           state |-> [state EXCEPT !.blockedTotal = @ + 1],
           blocked |-> TRUE]

\* The handler: what it passes to callback (once on every path) and the
\* adblockState it leaves.
onBeforeRequest(state, details, currentViewUrl) ==
  LET requestHost == extractHostname(Str(details.url))
      allow == [callbacks |-> <<[cancel |-> FALSE]>>, state |-> state, blocked |-> FALSE]
  IN IF PassThrough(state.enabled, details) THEN allow
     ELSE IF Falsy(requestHost) \/ ~isBlockedHost(requestHost) THEN allow
     ELSE IF FirstParty(requestHost, InitiatorHost(details, currentViewUrl)) THEN allow
     ELSE [callbacks |-> <<[cancel |-> TRUE]>>,
           state |-> [state EXCEPT !.blockedTotal = @ + 1],
           blocked |-> TRUE]

MaxBlocked == 2

RequestUrls ==
  { <<"h", "t", "t", "p", "s", ":", "/", "/", "d", "o", "u", "b", "l", "e", "c", "l", "i", "c", "k", ".", "n", "e", "t", "/", "a", "d", ".", "j", "s">>, <<"h", "t", "t", "p", ":", "/", "/", "S", "t", "a", "t", "s", ".", "G", ".", "D", "o", "u", "b", "l", "e", "C", "l", "i", "c", "k", ".", "n", "e", "t", ".", "/", "p", "?", "x", "=", "1">>,
    <<"h", "t", "t", "p", "s", ":", "/", "/", "e", "x", "a", "m", "p", "l", "e", ".", "c", "o", "m", "/", "a", "p", "p", ".", "j", "s">>, <<"h", "t", "t", "p", "s", ":", "/", "/", "n", "o", "t", "d", "o", "u", "b", "l", "e", "c", "l", "i", "c", "k", ".", "n", "e", "t", "/", "x">>,
    <<"w", "s", ":", "/", "/", "d", "o", "u", "b", "l", "e", "c", "l", "i", "c", "k", ".", "n", "e", "t", "/", "s">>, <<"h", "t", "t", "p", ":", "a", " ", "b">> }

RequestDetails ==
  [ url : RequestUrls,
    resourceType : {"mainFrame", "script"},
    initiator : {Undefined, Str(<<"n", "u", "l", "l">>), Str(<<"h", "t", "t", "p", "s", ":", "/", "/", "n", "e", "w", "s", ".", "e", "x", "a", "m", "p", "l", "e">>),
                 Str(<<"h", "t", "t", "p", "s", ":", "/", "/", "g", ".", "d", "o", "u", "b", "l", "e", "c", "l", "i", "c", "k", ".", "n", "e", "t">>)},
    referrer : {Str(<<>>), Str(<<"h", "t", "t", "p", "s", ":", "/", "/", "a", "d", "s", ".", "d", "o", "u", "b", "l", "e", "c", "l", "i", "c", "k", ".", "n", "e", "t", "/", "f", "r", "a", "m", "e">>)},
    webContentsId : {"none", "view", "gone"} ]

ViewUrls == { <<>>, <<"h", "t", "t", "p", "s", ":", "/", "/", "d", "o", "u", "b", "l", "e", "c", "l", "i", "c", "k", ".", "n", "e", "t", "/">>, <<"h", "t", "t", "p", "s", ":", "/", "/", "e", "x", "a", "m", "p", "l", "e", ".", "c", "o", "m", "/">> }

\* setupAdblock has run; the view shows some page.
InitAdblock ==
  /\ fn = "setupAdblock"
  /\ args = <<>>
  /\ result = <<>>
  /\ pc = "return"
  /\ settings \in {"absent", "true", "false"}
  /\ adblockState = [enabled |-> loadSettings(settings).enabled, blockedTotal |-> 0]
  /\ broadcast = [channel |-> "none"]
  /\ viewUrl \in ViewUrls
  /\ status = "Ready"
  /\ loadURLCalls = 0
  /\ openExternalCalls = 0
  /\ pending = {}
  /\ windows = 0
  /\ zoomFactor = [view |-> 10000, app |-> 10000]
  /\ windowContexts = {}
  /\ contexts = <<>>

\* The session hands a request to the handler.
RequestArrives(details) ==
  /\ pc # "call"
  /\ adblockState.blockedTotal < MaxBlocked
  /\ fn' = "onBeforeRequest"
  /\ args' = <<details>>
  /\ result' = <<>>
  /\ pc' = "call"
  /\ UNCHANGED <<adblockVars, navVars, zoomFactor, windowVars>>

\* The handler runs to its end.
OnBeforeRequest ==
  /\ pc = "call"
  /\ fn = "onBeforeRequest"
  /\ \E out \in {onBeforeRequest(adblockState, args[1], viewUrl)} :
        /\ result' = out.callbacks
        /\ adblockState' = out.state
        /\ broadcast' = IF out.blocked
                        THEN [channel |-> "adblock:stats", payload |-> out.state]
                        ELSE broadcast
  /\ pc' = "return"
  /\ UNCHANGED <<fn, args, settings, navVars, zoomFactor, windowVars>>

\* ipcMain "adblock:set-enabled"
SetEnabled(enabled) ==
  /\ pc # "call"
  /\ adblockState' = [adblockState EXCEPT !.enabled = enabled]
  /\ settings' = saveSettings(enabled)
  /\ broadcast' = [channel |-> "adblock:state", payload |-> adblockState']
  /\ UNCHANGED <<callVars, navVars, zoomFactor, windowVars>>

NextAdblock ==
  \/ \E d \in RequestDetails : RequestArrives(d)
  \/ OnBeforeRequest
  \/ \E b \in BOOLEAN : SetEnabled(b)

SpecAdblock == InitAdblock /\ [][NextAdblock]_vars

(***************************************************************************)
(* src/main.js: navigation from the address bar (navigateInput) and the     *)
(* asynchronous completions of what it starts.                             *)
(***************************************************************************)
DEFAULT_URL == <<"h", "t", "t", "p", "s", ":", "/", "/", "e", "x", "a", "m", "p", "l", "e", ".", "c", "o", "m">>

SEARCH_URL == <<"h", "t", "t", "p", "s", ":", "/", "/", "d", "u", "c", "k", "d", "u", "c", "k", "g", "o", ".", "c", "o", "m", "/", "?", "q", "=">>

\* /^[a-zA-Z][a-zA-Z0-9+.-]*:/ : the index of the colon that ends the match, 0
\* when the expression does not match.
SCHEME_RE(targetUrl) == SchemeEnd(targetUrl)

\* /^[a-zA-Z][a-zA-Z0-9+.-]*:\/\//
AUTHORITY_SCHEME_RE(targetUrl) ==
  LET k == SchemeEnd(targetUrl)
  IN k > 0 /\ startsWith(SubSeq(targetUrl, k + 1, Len(targetUrl)), <<"/", "/">>)

INTERNAL_SCHEMES == { <<"h", "t", "t", "p">>, <<"h", "t", "t", "p", "s">>, <<"a", "b", "o", "u", "t">>, <<"b", "l", "o", "b">>, <<"d", "a", "t", "a">> }

NON_AUTHORITY_EXTERNAL_SCHEMES == { <<"m", "a", "i", "l", "t", "o">>, <<"t", "e", "l">>, <<"s", "m", "s">> }

getScheme(targetUrl) ==
  LET k == SCHEME_RE(targetUrl)
  IN IF k > 0 THEN Str(toLowerCase(SubSeq(targetUrl, 1, k - 1))) ELSE Null

isExternalProtocol_AnyNonInternal(targetUrl) ==
  LET scheme == getScheme(targetUrl)
  IN IF scheme = Null THEN FALSE
     ELSE scheme.s \notin INTERNAL_SCHEMES

isExternalProtocol(targetUrl) ==
  LET scheme == getScheme(targetUrl)
  IN IF scheme = Null THEN FALSE
     ELSE IF scheme.s \in INTERNAL_SCHEMES THEN FALSE
     ELSE IF AUTHORITY_SCHEME_RE(targetUrl) THEN TRUE
     ELSE scheme.s \in NON_AUTHORITY_EXTERNAL_SCHEMES

allowInPageNavigation_NoOpaqueCheck(currentUrl, targetUrl) ==
  LET scheme == getScheme(targetUrl)
  IN IF scheme = Null THEN FALSE
     ELSE IF scheme.s = <<"a", "b", "o", "u", "t">> \/ scheme.s = <<"d", "a", "t", "a">> THEN TRUE
     ELSE IF scheme.s # <<"b", "l", "o", "b">> THEN FALSE
     ELSE IF ~Origin(targetUrl).ok \/ ~Origin(currentUrl).ok THEN FALSE
     ELSE Origin(targetUrl).origin = Origin(currentUrl).origin

\* allowInPageNavigation(context, targetUrl), currentUrl being
\* context.view.webContents.getURL().
allowInPageNavigation(currentUrl, targetUrl) ==
  LET scheme == getScheme(targetUrl)
      targetOrigin == Origin(targetUrl)
      currentOrigin == Origin(currentUrl)
  IN IF scheme = Null THEN FALSE
     ELSE IF scheme.s = <<"a", "b", "o", "u", "t">> \/ scheme.s = <<"d", "a", "t", "a">> THEN TRUE
     ELSE IF scheme.s # <<"b", "l", "o", "b">> THEN FALSE
     ELSE IF ~targetOrigin.ok \/ ~currentOrigin.ok THEN FALSE
     ELSE /\ targetOrigin.origin # <<"n", "u", "l", "l">>
          /\ currentOrigin.origin # <<"n", "u", "l", "l">>
          /\ targetOrigin.origin = currentOrigin.origin

navigateInput_AlwaysLoads(rawInput) ==
  LET targetUrl == normalizeInput(rawInput, SEARCH_URL)
  IN IF targetUrl.t = "throw" THEN [targetUrl |-> targetUrl, started |-> "none"]
     ELSE IF targetUrl = Null THEN [targetUrl |-> targetUrl, started |-> "none"]
     ELSE [targetUrl |-> targetUrl, started |-> "loadURL"]

\* navigateInput: the target it resolved, and what it started ("none" when it
\* returned early or normalizeInput threw).
\* navigateInput from the resolved target on.
navigateTarget(targetUrl) ==
  IF targetUrl.t = "throw" THEN [targetUrl |-> targetUrl, started |-> "none"]
  ELSE IF targetUrl = Null THEN [targetUrl |-> targetUrl, started |-> "none"]
  ELSE IF isExternalProtocol(targetUrl.s)
  THEN [targetUrl |-> targetUrl, started |-> "openExternal"]
  ELSE [targetUrl |-> targetUrl, started |-> "loadURL"]

navigateInput(rawInput) == navigateTarget(normalizeInput(rawInput, SEARCH_URL))

willNavigate_AnyScheme(currentUrl, targetUrl) ==
  IF allowInPageNavigation(currentUrl, targetUrl)
  THEN [prevented |-> FALSE, started |-> "none"]
  ELSE IF getScheme(targetUrl) = Null \/ getScheme(targetUrl).s \in INTERNAL_SCHEMES
  THEN [prevented |-> FALSE, started |-> "none"]
  ELSE [prevented |-> TRUE, started |-> "openExternal"]

\* The "will-navigate" handler: whether it called event.preventDefault(), and
\* what it started.
willNavigate(currentUrl, targetUrl) ==
  IF allowInPageNavigation(currentUrl, targetUrl)
  THEN [prevented |-> FALSE, started |-> "none"]
  ELSE IF ~isExternalProtocol(targetUrl)
  THEN [prevented |-> FALSE, started |-> "none"]
  ELSE [prevented |-> TRUE, started |-> "openExternal"]

windowOpenHandler_AllowsInPage(currentUrl, url) ==
  IF url = <<>> THEN [action |-> "deny", started |-> "none"]
  ELSE IF allowInPageNavigation(currentUrl, url)
  THEN [action |-> "allow", started |-> "none"]
  ELSE IF isExternalProtocol(url)
  THEN [action |-> "deny", started |-> "openExternal"]
  ELSE [action |-> "deny", started |-> "loadURL"]

\* The handler given to setWindowOpenHandler: the action it returns, and what
\* it started.
windowOpenHandler(currentUrl, url) ==
  IF url = <<>> THEN [action |-> "deny", started |-> "none"]
  ELSE IF allowInPageNavigation(currentUrl, url)
  THEN [action |-> "deny", started |-> "loadURL"]
  ELSE IF isExternalProtocol(url)
  THEN [action |-> "deny", started |-> "openExternal"]
  ELSE [action |-> "deny", started |-> "loadURL"]

\* The most loadURL and shell.openExternal calls a run makes, the load of
\* DEFAULT_URL by createWindow included.
MaxCalls == 2

NavInputs ==
  { Null, Undefined, Str(<<>>), Str(<<" ">>), Str(<<"\t">>), Str(<<"\n">>), Str(<<" ", "\t", "\n", " ">>),
    Str(<<" ", "e", "x", "a", "m", "p", "l", "e", ".", "c", "o", "m", " ">>), Str(<<"l", "o", "c", "a", "l", "h", "o", "s", "t", ":", "3", "0", "0", "0">>), Str(<<"t", "w", "o", " ", "w", "o", "r", "d", "s">>),
    Str(<<"m", "a", "i", "l", "t", "o", ":", "a", "@", "b", ".", "c">>), Str(<<"M", "y", "A", "p", "p", ":", "/", "/", "o", "p", "e", "n">>), Str(<<"a", "b", "o", "u", "t", ":", "b", "l", "a", "n", "k">>),
    Str(<<"a", LoneSurrogate>>) }

\* The URLs a page navigates to or opens a window for.
PageUrls ==
  { <<>>, <<"h", "t", "t", "p", "s", ":", "/", "/", "e", "x", "a", "m", "p", "l", "e", ".", "c", "o", "m", "/", "n", "e", "x", "t">>, <<"a", "b", "o", "u", "t", ":", "b", "l", "a", "n", "k">>, <<"d", "a", "t", "a", ":", "t", "e", "x", "t", "/", "h", "t", "m", "l", ",", "x">>,
    <<"b", "l", "o", "b", ":", "h", "t", "t", "p", "s", ":", "/", "/", "e", "x", "a", "m", "p", "l", "e", ".", "c", "o", "m", "/", "u">>, <<"b", "l", "o", "b", ":", "h", "t", "t", "p", "s", ":", "/", "/", "e", "v", "i", "l", ".", "e", "x", "a", "m", "p", "l", "e", "/", "u">>, <<"b", "l", "o", "b", ":", "n", "u", "l", "l", "/", "u">>,
    <<"m", "a", "i", "l", "t", "o", ":", "a", "@", "b", ".", "c">>, <<"t", "e", "l", ":", "1">>, <<"s", "t", "e", "a", "m", ":", "/", "/", "r", "u", "n", "/", "1">>, <<"f", "o", "o", ":", "b", "a", "r">> }

\* createWindow has run: the context is "Ready" and DEFAULT_URL is loading.
InitNav ==
  /\ fn = "createWindow"
  /\ args = <<>>
  /\ result = <<>>
  /\ pc = "return"
  /\ adblockState = [enabled |-> TRUE, blockedTotal |-> 0]
  /\ settings = "absent"
  /\ broadcast = [channel |-> "none"]
  /\ viewUrl = <<>>
  /\ status = "Ready"
  /\ loadURLCalls = 1
  /\ openExternalCalls = 0
  /\ pending = { [id |-> 1, op |-> "loadURL", url |-> DEFAULT_URL] }
  /\ windows = 1
  /\ zoomFactor = [view |-> 10000, app |-> 10000]
  /\ windowContexts = {1}
  /\ contexts = <<[cleanedUp |-> FALSE, viewLive |-> TRUE, viewDestroyed |-> 0, viewCalls |-> 0]>>

\* The renderer invokes "browser:navigate".
IpcNavigate(rawInput) ==
  /\ pc # "call"
  /\ loadURLCalls + openExternalCalls < MaxCalls
  /\ fn' = "navigateInput"
  /\ args' = <<rawInput>>
  /\ result' = <<>>
  /\ pc' = "call"
  /\ UNCHANGED <<adblockVars, navVars, zoomFactor, windowVars>>

\* navigateInput runs to its end; result is the target it resolved.
NavigateInput ==
  /\ pc = "call"
  /\ fn = "navigateInput"
  /\ \E out \in {navigateInput(args[1])}, id \in {loadURLCalls + openExternalCalls + 1} :
        /\ result' = out.targetUrl
        /\ loadURLCalls' = IF out.started = "loadURL" THEN loadURLCalls + 1 ELSE loadURLCalls
        /\ openExternalCalls' =
             IF out.started = "openExternal" THEN openExternalCalls + 1 ELSE openExternalCalls
        /\ pending' = IF out.started = "none" THEN pending
                      ELSE pending \cup { [id |-> id, op |-> out.started, url |-> out.targetUrl.s] }
  /\ pc' = "return"
  /\ UNCHANGED <<fn, args, adblockVars, viewUrl, status, windows, zoomFactor, windowVars>>

\* openExternalUrl: shell.openExternal resolved.
OpenExternalResolved(p) ==
  /\ pc # "call"
  /\ p \in pending
  /\ p.op = "openExternal"
  /\ status' = "Opened external link in system app"
  /\ pending' = pending \ {p}
  /\ UNCHANGED <<callVars, adblockVars, viewUrl, loadURLCalls, openExternalCalls, windows, zoomFactor, windowVars>>

\* openExternalUrl: shell.openExternal rejected.
OpenExternalRejected(p) ==
  /\ pc # "call"
  /\ p \in pending
  /\ p.op = "openExternal"
  /\ status' = "Error: Unable to open external link"
  /\ pending' = pending \ {p}
  /\ UNCHANGED <<callVars, adblockVars, viewUrl, loadURLCalls, openExternalCalls, windows, zoomFactor, windowVars>>

\* The page in the view starts a navigation: "will-navigate" is raised.
PageNavigates(targetUrl) ==
  /\ pc # "call"
  /\ viewUrl # <<>>
  /\ loadURLCalls + openExternalCalls < MaxCalls
  /\ fn' = "willNavigate"
  /\ args' = <<targetUrl>>
  /\ result' = <<>>
  /\ pc' = "call"
  /\ UNCHANGED <<adblockVars, navVars, zoomFactor, windowVars>>

\* The "will-navigate" handler runs to its end; a navigation it did not
\* prevent goes on in the view, in place of one under way.
WillNavigate ==
  /\ pc = "call"
  /\ fn = "willNavigate"
  /\ \E out \in {willNavigate(viewUrl, args[1])}, id \in {loadURLCalls + openExternalCalls + 1} :
        /\ result' = [prevented |-> out.prevented]
        /\ openExternalCalls' =
             IF out.started = "openExternal" THEN openExternalCalls + 1 ELSE openExternalCalls
        /\ pending' =
             IF out.prevented
             THEN pending \cup { [id |-> id, op |-> "openExternal", url |-> args[1]] }
             ELSE {p \in pending : p.op # "navigation"}
                    \cup { [id |-> 0, op |-> "navigation", url |-> args[1]] }
  /\ pc' = "return"
  /\ UNCHANGED <<fn, args, adblockVars, viewUrl, status, loadURLCalls, windows, zoomFactor, windowVars>>

\* The page in the view calls window.open or follows a target=_blank link.
PageOpensWindow(url) ==
  /\ pc # "call"
  /\ viewUrl # <<>>
  /\ loadURLCalls + openExternalCalls < MaxCalls
  /\ fn' = "windowOpenHandler"
  /\ args' = <<url>>
  /\ result' = <<>>
  /\ pc' = "call"
  /\ UNCHANGED <<adblockVars, navVars, zoomFactor, windowVars>>

\* The window-open handler runs to its end; the action "allow" would create
\* a window.
WindowOpen ==
  /\ pc = "call"
  /\ fn = "windowOpenHandler"
  /\ \E out \in {windowOpenHandler(viewUrl, args[1])}, id \in {loadURLCalls + openExternalCalls + 1} :
        /\ result' = [action |-> out.action]
        /\ loadURLCalls' = IF out.started = "loadURL" THEN loadURLCalls + 1 ELSE loadURLCalls
        /\ openExternalCalls' =
             IF out.started = "openExternal" THEN openExternalCalls + 1 ELSE openExternalCalls
        /\ pending' = IF out.started = "none" THEN pending
                      ELSE pending \cup { [id |-> id, op |-> out.started, url |-> args[1]] }
        /\ windows' = IF out.action = "allow" THEN windows + 1 ELSE windows
  /\ pc' = "return"
  /\ UNCHANGED <<fn, args, adblockVars, viewUrl, status, zoomFactor, windowVars>>

\* "did-start-loading" of a load under way.
DidStartLoading ==
  /\ pc # "call"
  /\ \E p \in pending : p.op \in {"loadURL", "navigation"}
  /\ status' = "Loading..."
  /\ UNCHANGED <<callVars, adblockVars, viewUrl, loadURLCalls, openExternalCalls, pending, windows, zoomFactor, windowVars>>

\* "did-stop-loading": the load finished (and loadURL resolved).
DidStopLoading(p) ==
  /\ pc # "call"
  /\ p \in pending
  /\ p.op \in {"loadURL", "navigation"}
  /\ status' = "Done"
  /\ viewUrl' = p.url
  /\ pending' = pending \ {p}
  /\ UNCHANGED <<callVars, adblockVars, loadURLCalls, openExternalCalls, windows, zoomFactor, windowVars>>

\* loadInView: loadURL rejected.
LoadRejected(p) ==
  /\ pc # "call"
  /\ p \in pending
  /\ p.op = "loadURL"
  /\ status' = "Error: Failed to load"
  /\ pending' = pending \ {p}
  /\ UNCHANGED <<callVars, adblockVars, viewUrl, loadURLCalls, openExternalCalls, windows, zoomFactor, windowVars>>

NextNav ==
  \/ \E r \in NavInputs : IpcNavigate(r)
  \/ NavigateInput
  \/ \E u \in PageUrls : PageNavigates(u)
  \/ WillNavigate
  \/ \E u \in PageUrls : PageOpensWindow(u)
  \/ WindowOpen
  \/ \E p \in pending : OpenExternalResolved(p)
  \/ \E p \in pending : OpenExternalRejected(p)
  \/ DidStartLoading
  \/ \E p \in pending : DidStopLoading(p)
  \/ \E p \in pending : LoadRejected(p)

SpecNav == InitNav /\ [][NextNav]_vars

\* A promise of shell.openExternal settles: the step that resolves or rejects
\* it cannot be possible again and again without being taken.
FairNav ==
  SF_vars(\E p \in pending : OpenExternalResolved(p) \/ OpenExternalRejected(p))

SpecNavFair == SpecNav /\ FairNav

(***************************************************************************)
(* src/main.js: the zoom items of the View menu.  A zoom factor is an      *)
(* integer number of ZoomUnit-ths (1 is 10000), an intermediate value a    *)
(* fraction <<numerator, denominator>> of them.  Math.round on a product   *)
(* or quotient of doubles that lies half-way between two integers may go   *)
(* either way, so rounding yields a set of possible values.                *)
(***************************************************************************)
ZOOM_FACTOR_PRECISION == 4

\* 10 ** ZOOM_FACTOR_PRECISION
ZoomUnit == 10000

ZOOM_DEFAULT_FACTOR == 10000

ZOOM_MIN_FACTOR == 5000

ZOOM_MAX_FACTOR == 30000

\* 1.2
ZOOM_STEP_MULTIPLIER == <<12, 10>>

roundZoomFactor(factor) ==
  LET n == factor[1]
      d == factor[2]
  IN IF 2 * (n % d) = d THEN {n \div d, n \div d + 1}
     ELSE {(2 * n + d) \div (2 * d)}

clampZoomFactor(factor) ==
  IF factor[1] <= 0 THEN {ZOOM_DEFAULT_FACTOR}
  ELSE IF factor[1] > ZOOM_MAX_FACTOR * factor[2] THEN roundZoomFactor(<<ZOOM_MAX_FACTOR, 1>>)
  ELSE IF factor[1] < ZOOM_MIN_FACTOR * factor[2] THEN roundZoomFactor(<<ZOOM_MIN_FACTOR, 1>>)
  ELSE roundZoomFactor(factor)

\* The zoom factors setBrowserViewZoomFactor may leave.
setBrowserViewZoomFactor(zoom, factor) ==
  { [zoom EXCEPT !.view = f] : f \in clampZoomFactor(<<factor, 1>>) }

adjustBrowserViewZoom_TargetsWindow(zoom, direction) ==
  LET nextFactor == IF direction = "in"
                    THEN <<zoom.app * ZOOM_STEP_MULTIPLIER[1], ZOOM_STEP_MULTIPLIER[2]>>
                    ELSE <<zoom.app * ZOOM_STEP_MULTIPLIER[2], ZOOM_STEP_MULTIPLIER[1]>>
  IN IF direction \notin {"in", "out"} THEN {zoom}
     ELSE { [zoom EXCEPT !.app = f] : f \in clampZoomFactor(nextFactor) }

\* The zoom factors adjustBrowserViewZoom may leave.
adjustBrowserViewZoom(zoom, direction) ==
  LET currentFactor == CHOOSE f \in clampZoomFactor(<<zoom.view, 1>>) : TRUE
      nextFactor == IF direction = "in"
                    THEN <<currentFactor * ZOOM_STEP_MULTIPLIER[1], ZOOM_STEP_MULTIPLIER[2]>>
                    ELSE <<currentFactor * ZOOM_STEP_MULTIPLIER[2], ZOOM_STEP_MULTIPLIER[1]>>
  IN IF direction \notin {"in", "out"} THEN {zoom}
     ELSE { [zoom EXCEPT !.view = f] : f \in clampZoomFactor(nextFactor) }

\* ZOOM_EPSILON is a hundredth of a unit: the factors differ by less only if
\* they are equal.
lockAppUiZoom(zoom) ==
  IF zoom.app = ZOOM_DEFAULT_FACTOR THEN zoom
  ELSE [zoom EXCEPT !.app = ZOOM_DEFAULT_FACTOR]

\* A window exists, as createWindow left it.
InitZoom == InitNav

\* View > Actual Size
MenuActualSize ==
  /\ fn' = "setBrowserViewZoomFactor"
  /\ args' = <<ZOOM_DEFAULT_FACTOR>>
  /\ result' = Bool(TRUE)
  /\ pc' = "return"
  /\ zoomFactor' \in setBrowserViewZoomFactor(zoomFactor, ZOOM_DEFAULT_FACTOR)
  /\ UNCHANGED <<adblockVars, navVars, windowVars>>

\* View > Zoom In and View > Zoom Out
MenuZoom(direction) ==
  /\ fn' = "adjustBrowserViewZoom"
  /\ args' = <<direction>>
  /\ result' = Bool(TRUE)
  /\ pc' = "return"
  /\ zoomFactor' \in adjustBrowserViewZoom(zoomFactor, direction)
  /\ UNCHANGED <<adblockVars, navVars, windowVars>>

\* "zoom-changed" on the window's web contents: the handler prevents it and
\* locks the app UI's zoom.
AppUiZoomChanged ==
  /\ fn' = "appUiZoomLockHandler"
  /\ args' = <<>>
  /\ result' = Undefined
  /\ pc' = "return"
  /\ zoomFactor' = lockAppUiZoom(zoomFactor)
  /\ UNCHANGED <<adblockVars, navVars, windowVars>>

NextZoom ==
  \/ MenuActualSize
  \/ \E d \in {"in", "out"} : MenuZoom(d)
  \/ AppUiZoomChanged

SpecZoom == InitZoom /\ [][NextZoom]_vars

(***************************************************************************)
(* src/main.js: the window contexts.  A context is known by the id of its  *)
(* window's renderer; windowContexts maps that id to it.  A window is      *)
(* created when the app is ready and, with no window open, when the app is *)
(* activated.                                                              *)
(***************************************************************************)
MaxWindows == 2

MaxViewCalls == 1

IPC_CHANNELS ==
  { "browser:navigate", "browser:back", "browser:forward", "browser:reload",
    "browser:set-toolbar-height", "browser:get-state" }

IpcInputs == { <<>>, <<"e", "x", "a", "m", "p", "l", "e", ".", "c", "o", "m">>, <<"m", "a", "i", "l", "t", "o", ":", "a", "@", "b", ".", "c">> }

\* windowContexts.get(event.sender.id) || null, 0 for null.
getContextFromEvent(map, sender) == IF sender \in map THEN sender ELSE 0

\* cleanupWindowContext that leaves the context in the map.
cleanupWindowContext_KeepsContext(state, context) ==
  IF context = 0 \/ state.contexts[context].cleanedUp THEN state
  ELSE [ windowContexts |-> state.windowContexts,
         contexts |-> [state.contexts EXCEPT
                         ![context].cleanedUp = TRUE,
                         ![context].viewLive = FALSE,
                         ![context].viewDestroyed =
                           IF state.contexts[context].viewLive THEN @ + 1 ELSE @] ]

\* cleanupWindowContext on [windowContexts, contexts]: the listeners it removes
\* are not modelled; the view's web contents is destroyed if it is live
\* (getLiveViewWebContents), and viewDestroyed counts the destroy() calls.
cleanupWindowContext(state, context) ==
  IF context = 0 \/ state.contexts[context].cleanedUp THEN state
  ELSE [ windowContexts |-> state.windowContexts \ {context},
         contexts |-> [state.contexts EXCEPT
                         ![context].cleanedUp = TRUE,
                         ![context].viewLive = FALSE,
                         ![context].viewDestroyed =
                           IF state.contexts[context].viewLive THEN @ + 1 ELSE @] ]

\* buildState(context)
buildState == [t |-> "state", url |-> viewUrl, status |-> status]

\* app.whenReady has run setupAdblock and built the menu; no window yet.
InitWindows ==
  /\ fn = "whenReady"
  /\ args = <<>>
  /\ result = Undefined
  /\ pc = "return"
  /\ BrowserAtLaunch

\* createWindow, called when the app is ready or activated with no window open.
CreateWindow ==
  /\ windows = 0
  /\ Len(contexts) < MaxWindows
  /\ fn' = "createWindow"
  /\ args' = <<>>
  /\ result' = Undefined
  /\ pc' = "return"
  /\ contexts' = Append(contexts, [cleanedUp |-> FALSE, viewLive |-> TRUE, viewDestroyed |-> 0, viewCalls |-> 0])
  /\ windowContexts' = windowContexts \cup {Len(contexts) + 1}
  /\ zoomFactor' = lockAppUiZoom([zoomFactor EXCEPT !.view = ZOOM_DEFAULT_FACTOR])
  /\ viewUrl' = <<>>
  /\ status' = "Ready"
  /\ loadURLCalls' = loadURLCalls + 1
  /\ pending' = { [id |-> loadURLCalls + openExternalCalls + 1, op |-> "loadURL", url |-> DEFAULT_URL] }
  /\ windows' = windows + 1
  /\ UNCHANGED <<adblockVars, openExternalCalls>>

\* "closed" of a window, raised once: cleanupWindowContext(context).  The
\* closing window may have destroyed the view's web contents already.
WindowClosed(context) ==
  /\ context \in 1..Len(contexts)
  /\ ~contexts[context].cleanedUp
  /\ fn' = "cleanupWindowContext"
  /\ args' = <<context>>
  /\ result' = Undefined
  /\ pc' = "return"
  /\ \E live \in BOOLEAN :
     \E after \in {cleanupWindowContext(
                      [windowContexts |-> windowContexts,
                       contexts |-> [contexts EXCEPT ![context].viewLive = live]],
                      context)} :
       /\ windowContexts' = after.windowContexts
       /\ contexts' = after.contexts
  /\ windows' = windows - 1
  /\ UNCHANGED <<adblockVars, viewUrl, status, loadURLCalls, openExternalCalls, pending, zoomFactor>>

\* A browser:* request of the renderer `sender`, which may be the renderer of
\* a window already closed.  The handler returns null without a context;
\* with one it acts on the view (navigate: navigateInput) and returns
\* buildState(context), which reads the view's web contents.
IpcRequest(channel, sender, rawInput) ==
  /\ sender \in 1..Len(contexts)
  /\ fn' = channel
  /\ args' = <<sender, rawInput>>
  /\ pc' = "return"
  /\ \E context \in {getContextFromEvent(windowContexts, sender)} :
       IF context = 0
       THEN /\ result' = Null
            /\ UNCHANGED <<navVars, windowVars>>
       ELSE /\ contexts[context].viewCalls < MaxViewCalls
            /\ loadURLCalls + openExternalCalls < MaxCalls + MaxWindows
            /\ \E out \in {IF channel = "browser:navigate" THEN navigateInput(rawInput)
                           ELSE [started |-> "none"]},
                  id \in {loadURLCalls + openExternalCalls + 1} :
                 /\ loadURLCalls' =
                      IF out.started = "loadURL" THEN loadURLCalls + 1 ELSE loadURLCalls
                 /\ openExternalCalls' =
                      IF out.started = "openExternal" THEN openExternalCalls + 1
                      ELSE openExternalCalls
                 /\ pending' =
                      IF out.started = "none" THEN pending
                      ELSE pending \cup { [id |-> id, op |-> out.started, url |-> out.targetUrl.s] }
            /\ contexts' = [contexts EXCEPT ![context].viewCalls = @ + 1]
            /\ result' = buildState
            /\ UNCHANGED <<viewUrl, status, windows, windowContexts>>
  /\ UNCHANGED <<adblockVars, zoomFactor>>

NextWindows ==
  \/ CreateWindow
  \/ \E c \in 1..MaxWindows : WindowClosed(c)
  \/ \E ch \in IPC_CHANNELS, s \in 1..MaxWindows, r \in IpcInputs : IpcRequest(ch, s, Str(r))

SpecWindows == InitWindows /\ [][NextWindows]_vars

(***************************************************************************)
(* The routing functions of src/main.js called on one input each.  A       *)
(* target is a scheme, a separator and a body; the view shows one of a few *)
(* URLs.                                                                   *)
(***************************************************************************)
TargetSchemes ==
  { <<>>, <<"a", "b", "o", "u", "t">>, <<"d", "a", "t", "a">>, <<"b", "l", "o", "b">>, <<"B", "L", "O", "B">>, <<"h", "t", "t", "p">>, <<"h", "t", "t", "p", "s">>, <<"m", "a", "i", "l", "t", "o">>, <<"T", "e", "l">>,
    <<"s", "m", "s">>, <<"f", "o", "o">>, <<"m", "y", "-", "a", "p", "p", "+", "x", ".", "1">>, <<"j", "a", "v", "a", "s", "c", "r", "i", "p", "t">>, <<"1", "x">> }

TargetSeparators == { <<>>, <<":">>, <<":", "/", "/">> }

TargetBodies ==
  { <<>>, <<"b", "l", "a", "n", "k">>, <<"h", "t", "t", "p", "s", ":", "/", "/", "e", "x", "a", "m", "p", "l", "e", ".", "c", "o", "m", "/", "u">>, <<"h", "t", "t", "p", "s", ":", "/", "/", "E", "X", "A", "M", "P", "L", "E", ".", "c", "o", "m", ":", "4", "4", "3", "/", "u", "?", "q", "#", "f">>,
    <<"h", "t", "t", "p", "s", ":", "/", "/", "e", "x", "a", "m", "p", "l", "e", ".", "c", "o", "m", ":", "8", "4", "4", "3", "/", "u">>, <<"h", "t", "t", "p", ":", "/", "/", "e", "x", "a", "m", "p", "l", "e", ".", "c", "o", "m", "/", "u">>, <<"h", "t", "t", "p", "s", ":", "/", "/", "e", "v", "i", "l", ".", "e", "x", "a", "m", "p", "l", "e", "/", "u">>,
    <<"n", "u", "l", "l", "/", "u">>, <<"e", "x", "a", "m", "p", "l", "e", ".", "c", "o", "m", "/", "u">>, <<"a", " ", "b">> }

CurrentUrls ==
  { <<>>, <<"h", "t", "t", "p", "s", ":", "/", "/", "e", "x", "a", "m", "p", "l", "e", ".", "c", "o", "m", "/">>, <<"h", "t", "t", "p", "s", ":", "/", "/", "e", "x", "a", "m", "p", "l", "e", ".", "c", "o", "m", ":", "8", "4", "4", "3", "/", "x">>, <<"h", "t", "t", "p", ":", "/", "/", "e", "x", "a", "m", "p", "l", "e", ".", "c", "o", "m", "/">>,
    <<"a", "b", "o", "u", "t", ":", "b", "l", "a", "n", "k">>, <<"b", "l", "o", "b", ":", "h", "t", "t", "p", "s", ":", "/", "/", "e", "x", "a", "m", "p", "l", "e", ".", "c", "o", "m", "/", "v">>, <<"d", "a", "t", "a", ":", "t", "e", "x", "t", "/", "h", "t", "m", "l", ",", "x">> }

InitRouter ==
  /\ \E x \in TargetSchemes, y \in TargetSeparators, z \in TargetBodies :
       \/ /\ fn = "allowInPageNavigation"
          /\ \E c \in CurrentUrls : args = <<c, x \o y \o z>>
       \/ /\ fn = "isExternalProtocol"
          /\ args = <<x \o y \o z>>
  /\ result = Undefined
  /\ pc = "call"
  /\ BrowserAtLaunch

CallAllowInPageNavigation ==
  /\ pc = "call"
  /\ fn = "allowInPageNavigation"
  /\ result' = Bool(allowInPageNavigation(args[1], args[2]))
  /\ pc' = "return"
  /\ UNCHANGED <<fn, args, adblockVars, navVars, zoomFactor, windowVars>>

CallIsExternalProtocol ==
  /\ pc = "call"
  /\ fn = "isExternalProtocol"
  /\ result' = Bool(isExternalProtocol(args[1]))
  /\ pc' = "return"
  /\ UNCHANGED <<fn, args, adblockVars, navVars, zoomFactor, windowVars>>

NextRouter ==
  \/ CallAllowInPageNavigation
  \/ CallIsExternalProtocol

SpecRouter == InitRouter /\ [][NextRouter]_vars

(***************************************************************************)
(* The inputs of the resolver.  Three families: free sequences of at most  *)
(* MaxParts tokens; shaped inputs, padding + host + port + suffix +        *)
(* padding; and two labels joined by a dot.  And null and undefined.       *)
(***************************************************************************)
MaxParts == 3

RECURSIVE Flatten(_)
Flatten(parts) == IF parts = <<>> THEN <<>> ELSE Head(parts) \o Flatten(Tail(parts))

Repeat(c, n) == [i \in 1..n |-> c]

Tokens ==
  { <<"l", "o", "c", "a", "l", "h", "o", "s", "t">>, <<"A", ".", "b">>, <<"1", "0", ".", "0", ".", "0", ".", "5">>, <<"[", ":", ":", "1", "]">>, <<":">>, <<"8", "0">>, <<"/">>, <<".">>,
    <<" ">>, <<"\t">>, <<"\n">>, <<"a">>, <<"?">>, <<"-">>, <<LoneSurrogate>> }

Pads == { <<>>, <<" ">>, <<"\t", "\n">> }
ShapedHosts ==
  { <<"l", "o", "c", "a", "l", "h", "o", "s", "t">>, <<"L", "o", "c", "a", "l", "H", "o", "s", "t">>, <<"e", "x", "a", "m", "p", "l", "e", ".", "c", "o", "m">>, <<"1", "2", "7", ".", "0", ".", "0", ".", "1">>, <<"1", "7", "2", ".", "3", "2", ".", "0", ".", "1">>,
    <<"8", ".", "8", ".", "8", ".", "8">>, <<"2", "5", "6", ".", "1", ".", "1", ".", "1">>, <<"[", ":", ":", "1", "]">>, <<"[", "2", "0", "0", "1", ":", "d", "b", "8", ":", ":", "1", "]">>, <<"[", "f", "d", "0", "0", ":", ":", "1", "]">>,
    <<"[", "a", "b", "c", "]">>, <<"f", "o", "o">>, <<"m", "a", "i", "l", "t", "o">>, <<"h", "t", "t", "p">>, <<"-", "a", ".", "b">>, <<"a", ".", ".", "b">>, <<"x", " ", "y", ".", "z">> }
ShapedPorts == { <<>>, <<":">>, <<":", "3", "0", "0", "0">>, <<":", "8", "0", "a">>, <<":", "b", "a", "r">>, <<":", "/", "/", "a", ".", "b">>, <<":", "t", "e", "s", "t", "@", "a", ".", "b">> }
ShapedSuffixes ==
  { <<>>, <<"/">>, <<"/", "p", "a", "t", "h", "?", "q", "=", "1", "#", "x">>, <<"?", "q", "=", "1">>, <<"#", "x">>, <<"/", "a", " ", "b">>, <<"/", "a", "\t", "b">>, <<"/", "a", "\n", "b">>,
    <<"x">>, <<"/", LoneSurrogate>>, <<" ", "b">> }

Labels ==
  { <<>>, <<"a">>, <<"A">>, <<"1">>, <<"0", "x", "1", "f">>, <<"a", "-", "b">>, <<"-", "a">>, <<"a", "-">>, <<"a", "_", "b">>, <<"c", "o", "m">>, <<"l", "o", "c", "a", "l", "h", "o", "s", "t">>,
    Repeat("a", 63), Repeat("a", 64) }

SearchUrls == { <<>>, <<"h", "t", "t", "p", "s", ":", "/", "/", "s", "e", "a", "r", "c", "h", ".", "e", "x", "a", "m", "p", "l", "e", "/", "?", "q", "=">>, <<"/", "s", "e", "a", "r", "c", "h", "?", "q", "=">> }

\* Bracketed IPv6 hosts: a first hextet and "::1", the same behind a leading
\* "::", and the unspecified and loopback addresses; with and without a zone.
Hextets ==
  { <<"0">>, <<"f", "c">>, <<"2", "0", "0", "1">>, <<"f", "b", "f", "f">>, <<"f", "c", "0", "0">>, <<"f", "d", "0", "0">>, <<"f", "d", "f", "f">>, <<"f", "e", "0", "0">>, <<"f", "e", "7", "f">>,
    <<"f", "e", "8", "0">>, <<"F", "E", "8", "0">>, <<"f", "e", "b", "f">>, <<"f", "e", "c", "0">> }

Ipv6Addresses ==
  {h \o <<":", ":", "1">> : h \in Hextets} \cup {<<":", ":">> \o h \o <<":", "1">> : h \in Hextets}
    \cup { <<":", ":">>, <<":", ":", "1">>, <<":", ":", "2">> }

Zones == { <<>>, <<"%", "1">>, <<"%", "e", "t", "h", "0">> }

HostRests == { <<>>, <<":", "8", "0">>, <<"/", "x">>, <<":", "8", "0", "/", "x", "?", "y", "#", "z">> }

\* The decimal numeral of n.
RECURSIVE Decimal(_)
Decimal(n) ==
  IF n < 10 THEN <<DigitSeq[n + 1]>> ELSE Decimal(n \div 10) \o <<DigitSeq[(n % 10) + 1]>>

\* Dotted quads a.b.0.1 around the edges of the private and loopback ranges.
FirstOctets == {0, 1, 9, 10, 11, 126, 127, 128, 168, 169, 170, 171, 172, 173, 191, 192, 193, 255}

SecondOctets == {0, 15, 16, 17, 31, 32, 167, 168, 169, 253, 254, 255}

(***************************************************************************)
(* The resolver called on one input.                                       *)
(***************************************************************************)
InitResolver ==
  /\ fn = "normalizeInput"
  /\ \E u \in SearchUrls :
       \/ \E n \in 0..MaxParts : \E p \in [1..n -> Tokens] : args = <<Str(Flatten(p)), u>>
       \/ \E a \in Pads, h \in ShapedHosts, p \in ShapedPorts, x \in ShapedSuffixes, b \in Pads :
            args = <<Str(a \o h \o p \o x \o b), u>>
       \/ \E a \in Labels, b \in Labels : args = <<Str(a \o <<".">> \o b), u>>
       \/ \E a \in Ipv6Addresses, z \in Zones, r \in HostRests :
            args = <<Str(<<"[">> \o a \o z \o <<"]">> \o r), u>>
       \/ \E a \in FirstOctets, b \in SecondOctets, r \in HostRests :
            args = <<Str(Decimal(a) \o <<".">> \o Decimal(b) \o <<".", "0", ".", "1">> \o r), u>>
       \/ args = <<Null, u>>
       \/ args = <<Undefined, u>>
  /\ result = Undefined
  /\ pc = "call"
  /\ BrowserAtLaunch

CallNormalizeInput ==
  /\ pc = "call"
  /\ fn = "normalizeInput"
  /\ result' = normalizeInput(args[1], args[2])
  /\ pc' = "return"
  /\ UNCHANGED <<fn, args, adblockVars, navVars, zoomFactor, windowVars>>

NextResolver == CallNormalizeInput

SpecResolver == InitResolver /\ [][NextResolver]_vars

(***************************************************************************)
(* The host classifier called on one host.  A host is what HOST_RE or      *)
(* HOST_PORT_RE captures: a bracketed run without "]" and white space, or  *)
(* a run without ":", "/", "?", "#" and white space.                       *)
(***************************************************************************)
MaxTokenParts == 4

HostParts ==
  { <<"L", "o", "c", "a", "l", "H", "o", "s", "t">>, <<"a">>, <<"G">>, <<"-">>, <<".">>, <<"1">>, <<"2", "5", "6">>, <<"[">>, <<"]">>, <<":">>, <<"%">>,
    <<KelvinSign>> }

OctetTexts == { <<"0">>, <<"2", "5", "5">>, <<"2", "5", "6">>, <<"0", "0", "0", "1">>, <<"a">>, <<>> }

LongHosts ==
  { Repeat("a", 63) \o <<".">> \o Repeat("b", 63) \o <<".">> \o Repeat("c", 63) \o <<".">> \o Repeat("d", n) :
      n \in {61, 62} }

IsCapturedHost(host) == HOST_RE(host).matched /\ HOST_RE(host).host = host

\* The classifier is handed the host.
HostGiven(host) == IsCapturedHost(host) /\ args = <<Str(host)>>

InitClassifier ==
  /\ fn = "parseHostInfo"
  /\ \/ \E n \in 1..MaxTokenParts : \E p \in [1..n -> HostParts] : HostGiven(Flatten(p))
     \/ \E a \in OctetTexts, b \in OctetTexts, r \in { <<>>, <<".", "1">>, <<".", "1", ".", "1">>, <<".", "1", ".", "1", ".", "1">> } :
          HostGiven(a \o <<".">> \o b \o r)
     \/ \E a \in Labels, b \in Labels : HostGiven(a \o <<".">> \o b)
     \/ \E a \in Ipv6Addresses, z \in Zones : HostGiven(<<"[">> \o a \o z \o <<"]">>)
     \/ \E host \in LongHosts : HostGiven(host)
  /\ result = Undefined
  /\ pc = "call"
  /\ BrowserAtLaunch

CallParseHostInfo ==
  /\ pc = "call"
  /\ fn = "parseHostInfo"
  /\ result' = parseHostInfo(args[1].s)
  /\ pc' = "return"
  /\ UNCHANGED <<fn, args, adblockVars, navVars, zoomFactor, windowVars>>

NextClassifier == CallParseHostInfo

SpecClassifier == InitClassifier /\ [][NextClassifier]_vars

(***************************************************************************)
(* The matcher's functions called on one input each.  Hosts are free       *)
(* sequences of at most MaxHostParts tokens, and blocklist entries behind  *)
(* a prefix and a dot.                                                     *)
(***************************************************************************)
MaxHostParts == 3

HostTokens ==
  { <<"d", "o", "u", "b", "l", "e", "c", "l", "i", "c", "k", ".", "n", "e", "t">>, <<"f", "a", "c", "e", "b", "o", "o", "k", ".", "n", "e", "t">>, <<"c", "o", "n", "n", "e", "c", "t">>, <<"n", "o", "t">>, <<"e", "x", "a", "m", "p", "l", "e", ".", "c", "o", "m">>,
    <<"n", "e", "t">>, <<"X">>, <<".">>, <<" ">> }

HostsOf(n) == {Flatten(p) : p \in UNION {[1..k -> HostTokens] : k \in 0..n}}

HostInputs == HostsOf(MaxHostParts)

SubdomainInputs ==
  {sub \o <<".">> \o d : sub \in HostsOf(MaxHostParts - 1) \cup { <<LoneSurrogate>> },
                      d \in BLOCKED_DOMAINS}

Candidates ==
  { Str(<<"e", "x", "a", "m", "p", "l", "e", ".", "c", "o", "m">>), Str(<<"E", "x", "a", "m", "p", "l", "e", ".", "C", "O", "M", ".">>), Str(<<"d", "o", "u", "b", "l", "e", "c", "l", "i", "c", "k", ".", "n", "e", "t">>), Str(<<"n", "e", "t">>),
    Str(<<>>), Null }

UrlInputs ==
  { <<"h", "t", "t", "p", "s", ":", "/", "/", "S", "u", "b", ".", "E", "x", "a", "m", "p", "l", "e", ".", "c", "o", "m", "/", "p", "a", "t", "h">>, <<"n", "o", "t", " ", "a", " ", "v", "a", "l", "i", "d", " ", "u", "r", "l">>, <<"n", "u", "l", "l">>, <<>>, <<" ">>,
    <<"e", "x", "a", "m", "p", "l", "e", ".", "c", "o", "m", "/", "p", "a", "t", "h">>, <<"e", "x", "a", "m", "p", "l", "e", ".", "c", "o", "m", ":", "8", "0", "8", "0">>, <<"l", "o", "c", "a", "l", "h", "o", "s", "t", ":", "3", "0", "0", "0">>, <<"a", "b", "o", "u", "t", ":", "b", "l", "a", "n", "k">>,
    <<"d", "a", "t", "a", ":", "t", "e", "x", "t", "/", "p", "l", "a", "i", "n", ",", "x">>, <<"m", "a", "i", "l", "t", "o", ":", "t", "e", "s", "t", "@", "e", "x", "a", "m", "p", "l", "e", ".", "c", "o", "m">>, <<"h", "t", "t", "p", ":", "/", "/", "u", ":", "p", "@", "H", "o", "s", "t", ".", ":", "8", "0", "/", "x">>,
    <<"h", "t", "t", "p", "s", ":", "/", "/", "d", "o", "u", "b", "l", "e", "c", "l", "i", "c", "k", ".", "n", "e", "t", ".", "/", "a", "d", ".", "j", "s">>, <<"h", "t", "t", "p", ":", "a", " ", "b">>, <<"h", "t", "t", "p", "s", ":", "/", "/", "e", "x", "a", " ", "m", "p", "l", "e", ".", "c", "o", "m">>,
    <<"w", "s", ":", "/", "/", "d", "o", "u", "b", "l", "e", "c", "l", "i", "c", "k", ".", "n", "e", "t", "/", "s">>, <<"f", "o", "o", ":", "/", "/", "B", "a", "r", ".", "E", "x", "a", "m", "p", "l", "e", "/", "x">>, <<"h", "t", "t", "p", ":", "/", "/", "a", ".", "b", ":", "9", "9", "9", "9", "9", "/">>,
    <<" ", " ", "h", "t", "t", "p", "s", ":", "/", "/", "s", "t", "a", "t", "s", ".", "g", ".", "d", "o", "u", "b", "l", "e", "c", "l", "i", "c", "k", ".", "n", "e", "t", "/", "x", "?", "u", "=", "1", "#", "f", " ">>, <<"h", "t", "t", "p", "s", ":", "/", "/", "e", "x", "\t", "a", "m", "p", "l", "e", ".", "c", "o", "m">> }

BlockedHostArgs ==
  {Str(h) : h \in HostInputs \cup SubdomainInputs \cup BLOCKED_DOMAINS} \cup {Null, Undefined}

InitMatcher ==
  /\ \/ fn = "isBlockedHost" /\ \E v \in BlockedHostArgs : args = <<v>>
     \/ /\ fn \in {"isSubdomainOrSame", "isSameSite"}
        /\ \E h \in HostInputs, c \in Candidates :
             args = <<Str(h), c>> \/ args = <<c, Str(h)>>
     \/ /\ fn = "extractHostname"
        /\ \E u \in UrlInputs : args = <<Str(u)>> \/ args = <<Null>> \/ args = <<Undefined>>
  /\ result = Undefined
  /\ pc = "call"
  /\ BrowserAtLaunch

CallIsBlockedHost ==
  /\ pc = "call"
  /\ fn = "isBlockedHost"
  /\ result' = Bool(isBlockedHost(args[1]))
  /\ pc' = "return"
  /\ UNCHANGED <<fn, args, adblockVars, navVars, zoomFactor, windowVars>>

CallIsSubdomainOrSame ==
  /\ pc = "call"
  /\ fn = "isSubdomainOrSame"
  /\ result' = Bool(isSubdomainOrSame(args[1], args[2]))
  /\ pc' = "return"
  /\ UNCHANGED <<fn, args, adblockVars, navVars, zoomFactor, windowVars>>

CallIsSameSite ==
  /\ pc = "call"
  /\ fn = "isSameSite"
  /\ result' = Bool(isSameSite(args[1], args[2]))
  /\ pc' = "return"
  /\ UNCHANGED <<fn, args, adblockVars, navVars, zoomFactor, windowVars>>

CallExtractHostname ==
  /\ pc = "call"
  /\ fn = "extractHostname"
  /\ result' = extractHostname(args[1])
  /\ pc' = "return"
  /\ UNCHANGED <<fn, args, adblockVars, navVars, zoomFactor, windowVars>>

NextMatcher ==
  \/ CallIsBlockedHost
  \/ CallIsSubdomainOrSame
  \/ CallIsSameSite
  \/ CallExtractHostname

SpecMatcher == InitMatcher /\ [][NextMatcher]_vars

(***************************************************************************)
(* Claims about the resolver.                                              *)
(***************************************************************************)
Returned == pc = "return" /\ fn = "normalizeInput"

\* The trimmed input of the call.
Value == trim(ToStringOrEmpty(args[1]))

\* The template the call was given, the default one when none was.
Template == IF args[2] = <<>> THEN <<"h", "t", "t", "p", "s", ":", "/", "/", "d", "u", "c", "k", "d", "u", "c", "k", "g", "o", ".", "c", "o", "m", "/", "?", "q", "=">> ELSE args[2]

\* v is <host>:<digits>[suffix starting with / ? or #] with the colon at k, the
\* host classifies and v holds no space.
IsShorthandAt(v, k) ==
  /\ k \in 2..Len(v)
  /\ v[k] = ":"
  /\ parseHostInfo(SubSeq(v, 1, k - 1)) # NoHostInfo
  /\ \E e \in (k + 2)..(Len(v) + 1) :
       /\ \A j \in (k + 1)..(e - 1) : v[j] \in Digits
       /\ (e = Len(v) + 1 \/ v[e] \in {"/", "?", "#"})
  /\ ~includes(v, " ")

SchemeFor(host) ==
  IF isLocalHostInfo(parseHostInfo(host)) THEN <<"h", "t", "t", "p", ":", "/", "/">> ELSE <<"h", "t", "t", "p", "s", ":", "/", "/">>

HasSchemePrefix(v) ==
  \E k \in 2..Len(v) :
    /\ v[k] = ":"
    /\ v[1] \in Letters
    /\ \A j \in 2..(k - 1) : v[j] \in Letters \cup Digits \cup {"+", ".", "-"}

IsShorthand(v) ==
  /\ \E k \in 1..Len(v) : IsShorthandAt(v, k)
  /\ Range(v) \cap LineTerminators = {}

\* C2: an input that begins with a scheme prefix and is no host:port shorthand
\* with a classifiable host is returned as it is (trimmed), whatever follows
\* the colon.
C2_ExplicitUriVerbatim ==
  (Returned /\ HasSchemePrefix(Value) /\ ~IsShorthand(Value)) => result = Str(Value)

\* An opaque URI (no // after the colon) was returned verbatim.
C2_Witness ==
  /\ Returned
  /\ HasSchemePrefix(Value)
  /\ ~IsShorthand(Value)
  /\ ~URI_SCHEME_WITH_AUTHORITY_RE(Value)
  /\ includes(Value, "@")
  /\ result = Str(Value)

ValidLabel(l) ==
  /\ Len(l) \in 1..63
  /\ Range(l) \subseteq Letters \cup Digits \cup {"-"}
  /\ l[1] # "-"
  /\ l[Len(l)] # "-"

IsTwoLabels(s) ==
  \E k \in 1..Len(s) :
    /\ s[k] = "."
    /\ ValidLabel(SubSeq(s, 1, k - 1))
    /\ ValidLabel(SubSeq(s, k + 1, Len(s)))

\* C3: an input <label>.<label2> of two valid DNS labels resolves to https://
\* followed by the input.
C3_BareDomainHttps ==
  (Returned /\ IsTwoLabels(ToStringOrEmpty(args[1])))
    => result = Str(<<"h", "t", "t", "p", "s", ":", "/", "/">> \o ToStringOrEmpty(args[1]))

\* Two labels of the greatest length, 63, were given https://.
C3_Witness ==
  /\ Returned
  /\ IsTwoLabels(ToStringOrEmpty(args[1]))
  /\ Len(ToStringOrEmpty(args[1])) = 127
  /\ result = Str(<<"h", "t", "t", "p", "s", ":", "/", "/">> \o ToStringOrEmpty(args[1]))

\* v has a classifiable host at its start, followed by nothing or by a port,
\* path, query or fragment.
HasHostShape(v) ==
  \E h \in 1..Len(v) :
    /\ parseHostInfo(SubSeq(v, 1, h)) # NoHostInfo
    /\ (h = Len(v) \/ v[h + 1] \in {":", "/", "?", "#"})

IsFreeText(v) == includes(v, " ") /\ ~HasSchemePrefix(v) /\ ~HasHostShape(v)

\* C5 as stated: free text with a space, no scheme prefix and no host shape
\* resolves to the template followed by the percent-encoding of the whole
\* trimmed input (the default template when none is supplied).
C5_SearchFallback ==
  (Returned /\ IsFreeText(Value)) =>
    /\ result.t = "string"
    /\ LoneSurrogate \notin Range(Value) => result.s = Template \o EncodeUnits(Value)

\* The same for the inputs that are well-formed UTF-16 (no unpaired surrogate).
C5_WellFormedOnly ==
  (Returned /\ IsFreeText(Value) /\ LoneSurrogate \notin Range(Value))
    => result = Str(Template \o EncodeUnits(Value))

(***************************************************************************)
(* Claims about the matcher.                                               *)
(***************************************************************************)
ReturnedFrom(f) == pc = "return" /\ fn = f

\* C7: isBlockedHost is true of every blocklist entry d and of s + "." + d for
\* every string s.
C7_BlockedReflexiveMonotone ==
  (/\ ReturnedFrom("isBlockedHost")
   /\ args[1].t = "string"
   /\ \E d \in BLOCKED_DOMAINS : args[1].s = d \/ endsWith(args[1].s, <<".">> \o d))
    => result = Bool(TRUE)

\* A subdomain with upper-case letters and leading white space was blocked.
C7_Witness ==
  /\ ReturnedFrom("isBlockedHost")
  /\ args[1].t = "string"
  /\ \E d \in BLOCKED_DOMAINS : endsWith(args[1].s, <<"X", ".">> \o d)
  /\ args[1].s[1] = " "
  /\ result = Bool(TRUE)

\* The normalized host: trimmed, lower case, one trailing dot stripped.
NormalizedOnce(h) ==
  LET t == toLowerCase(trim(h))
  IN IF Len(t) > 0 /\ t[Len(t)] = "." THEN SubSeq(t, 1, Len(t) - 1) ELSE t

\* C8: isBlockedHost(host) is true only if the normalized host equals a
\* blocklist entry or ends with "." + entry, and isSubdomainOrSame(a, b) is
\* true only if normalized a equals normalized b or ends with "." + b.
C8_BlockedOnlyIfListed ==
  /\ (ReturnedFrom("isBlockedHost") /\ result = Bool(TRUE)) =>
       \E d \in BLOCKED_DOMAINS :
         \/ NormalizedOnce(args[1].s) = d
         \/ endsWith(NormalizedOnce(args[1].s), <<".">> \o d)
  /\ (ReturnedFrom("isSubdomainOrSame") /\ result = Bool(TRUE)) =>
       \/ NormalizedOnce(args[1].s) = NormalizedOnce(args[2].s)
       \/ endsWith(NormalizedOnce(args[1].s), <<".">> \o NormalizedOnce(args[2].s))

\* The part of C8 that the code keeps: a host blocked is, once normalized and
\* with one more trailing dot or white space removed, a listed domain or a
\* subdomain of one.
C8_UpToSecondNormalization ==
  (ReturnedFrom("isBlockedHost") /\ result = Bool(TRUE)) =>
     \E d \in BLOCKED_DOMAINS :
       \/ NormalizedOnce(NormalizedOnce(args[1].s)) = d
       \/ endsWith(NormalizedOnce(NormalizedOnce(args[1].s)), <<".">> \o d)

\* The normalized host of a value, empty when the value is no string.
HostOf(v) == IF v.t = "string" THEN NormalizedOnce(v.s) ELSE <<>>

\* C17: isSameSite(a, b) = isSameSite(b, a) = (isSubdomainOrSame(a, b) or
\* isSubdomainOrSame(b, a)), and it is true exactly when both hosts normalize
\* to something and one equals the other or ends with "." + the other.
C17_SameSiteSymmetric ==
  ReturnedFrom("isSameSite") =>
    LET a == HostOf(args[1])
        b == HostOf(args[2])
    IN /\ result = Bool(isSameSite(args[2], args[1]))
       /\ result = Bool(isSubdomainOrSame(args[1], args[2]) \/ isSubdomainOrSame(args[2], args[1]))
       /\ result = Bool(/\ a # <<>>
                        /\ b # <<>>
                        /\ (a = b \/ endsWith(a, <<".">> \o b) \/ endsWith(b, <<".">> \o a)))

\* The second host is a subdomain of the first, which has upper-case letters
\* and a trailing dot: same site through the second direction only.
C17_Witness ==
  /\ ReturnedFrom("isSameSite")
  /\ args = <<Str(<<"E", "x", "a", "m", "p", "l", "e", ".", "C", "O", "M", ".">>), Str(<<"X", ".", "e", "x", "a", "m", "p", "l", "e", ".", "c", "o", "m">>)>>
  /\ result = Bool(TRUE)

\* The trimmed argument of extractHostname.
UrlValue == trim(args[1].s)

\* The parse extractHostname takes the hostname from: of the value, or, failing
\* that, of the value behind "http://".
ParsedUrl == IF ParseUrl(UrlValue).ok THEN ParseUrl(UrlValue) ELSE ParseUrl(<<"h", "t", "t", "p", ":", "/", "/">> \o UrlValue)

\* extractHostname gives up before or after parsing.
NothingToParse ==
  \/ args[1].t # "string"
  \/ UrlValue = <<>>
  \/ UrlValue = <<"n", "u", "l", "l">>
  \/ ~ParsedUrl.ok

HandlerStep == pc = "call" /\ fn = "onBeforeRequest" /\ pc' = "return"

\* The handler answered cancel: false, once, and left blockedTotal alone.
Allowed ==
  /\ result' = <<[cancel |-> FALSE]>>
  /\ adblockState'.blockedTotal = adblockState.blockedTotal

\* The handler answered cancel: true, once, and counted the request.
Cancelled ==
  /\ result' = <<[cancel |-> TRUE]>>
  /\ adblockState'.blockedTotal = adblockState.blockedTotal + 1

Handled == pc = "return" /\ fn = "onBeforeRequest"

RequestHost == extractHostname(Str(args[1].url))

\* C6: the handler never blocks a same-site request: when the request's host
\* is blocked and isSameSite(requestHost, initiatorHost) holds for the
\* initiator host it determined, it answers cancel: false and does not
\* increment blockedTotal.
C6_SameSiteNeverBlocked ==
  [][ ( /\ HandlerStep
        /\ Truthy(RequestHost)
        /\ isBlockedHost(RequestHost)
        /\ Truthy(InitiatorHost(args[1], viewUrl))
        /\ isSameSite(RequestHost, InitiatorHost(args[1], viewUrl)) )
      => Allowed ]_vars

\* Filtering is on, a subresource request for a blocked domain came from one
\* of its subdomains, and was allowed.
C6_Witness ==
  /\ Handled
  /\ adblockState.enabled
  /\ args[1].resourceType = "script"
  /\ HttpRe(args[1].url)
  /\ RequestHost = Str(<<"d", "o", "u", "b", "l", "e", "c", "l", "i", "c", "k", ".", "n", "e", "t">>)
  /\ InitiatorHost(args[1], viewUrl) = Str(<<"g", ".", "d", "o", "u", "b", "l", "e", "c", "l", "i", "c", "k", ".", "n", "e", "t">>)
  /\ result = <<[cancel |-> FALSE]>>

\* C9: the handler fails open: when no hostname can be extracted from the
\* request URL, or no initiator hostname can be determined (from initiator or
\* referrer or, failing that, the source web contents' URL), it answers
\* cancel: false and blockedTotal is unchanged.
C9_FailsOpen ==
  [][ ( /\ HandlerStep
        /\ \/ Falsy(RequestHost)
           \/ Falsy(InitiatorHost(args[1], viewUrl)) )
      => Allowed ]_vars

\* Filtering is on, a subresource request for a blocked domain had neither
\* initiator nor referrer, its web contents showed no URL, and it was allowed.
C9_Witness ==
  /\ Handled
  /\ adblockState.enabled
  /\ args[1].resourceType = "script"
  /\ HttpRe(args[1].url)
  /\ Truthy(RequestHost)
  /\ isBlockedHost(RequestHost)
  /\ args[1].webContentsId = "view"
  /\ Falsy(InitiatorHost(args[1], viewUrl))
  /\ result = <<[cancel |-> FALSE]>>

\* A third-party subresource request for a blocked domain.
ThirdPartyBlocked(details) ==
  /\ details.resourceType # "mainFrame"
  /\ HttpRe(details.url)
  /\ Truthy(extractHostname(Str(details.url)))
  /\ isBlockedHost(extractHostname(Str(details.url)))
  /\ Truthy(InitiatorHost(details, viewUrl))
  /\ ~isSameSite(extractHostname(Str(details.url)), InitiatorHost(details, viewUrl))

\* C10: a request is passed through (cancel: false, blockedTotal unchanged)
\* whenever filtering is disabled at the time of the request, or the URL's
\* scheme is not http/https, or the resource type is mainFrame; the enabled
\* flag is the one in force when the request is handled, so with filtering
\* enabled a third-party subresource request for a blocked domain is cancelled
\* whatever was answered before.
C10_PassThrough ==
  [][ HandlerStep =>
        /\ ( \/ ~adblockState.enabled
             \/ ~HttpRe(args[1].url)
             \/ args[1].resourceType = "mainFrame" ) => Allowed
        /\ (adblockState.enabled /\ ThirdPartyBlocked(args[1])) => Cancelled ]_vars

\* A request was cancelled, filtering was then switched off, and a
\* third-party subresource request for a blocked domain was allowed.
C10_Witness ==
  /\ Handled
  /\ adblockState.blockedTotal > 0
  /\ ~adblockState.enabled
  /\ ThirdPartyBlocked(args[1])
  /\ result = <<[cancel |-> FALSE]>>

\* C11: blockedTotal is the number of requests answered cancel: true: it
\* starts at 0, a step changes it only when the handler answers cancel: true,
\* and then by exactly 1 (so allowed requests and toggles leave it alone and it
\* never decreases); the answer is the one the handler gives with the counter
\* at 0, so the verdict does not depend on the counter.
C11_CounterCountsBlocked ==
  /\ adblockState.blockedTotal = 0
  /\ [][ /\ adblockState'.blockedTotal =
              adblockState.blockedTotal
                + (IF HandlerStep /\ result' = <<[cancel |-> TRUE]>> THEN 1 ELSE 0)
         /\ HandlerStep =>
              result' = onBeforeRequest([adblockState EXCEPT !.blockedTotal = 0],
                                        args[1], viewUrl).callbacks ]_vars

\* Two requests were cancelled, with toggles off and on again before the
\* second, and the counter is 2.
C11_Witness ==
  /\ Handled
  /\ result = <<[cancel |-> TRUE]>>
  /\ adblockState.blockedTotal = 2
  /\ settings = "true"

(***************************************************************************)
(* Claims about navigation from the address bar.                           *)
(***************************************************************************)
\* A step in which navigateInput runs on args[1].
NavigateStep == pc = "call" /\ fn = "navigateInput" /\ pc' = "return"

\* null, undefined, or a string of white space only (the empty one included).
IsBlank(raw) ==
  \/ raw \in {Null, Undefined}
  \/ raw.t = "string" /\ \A i \in 1..Len(raw.s) : raw.s[i] \in WhiteSpace

\* C4: for every empty or white-space-only input, and for null and undefined,
\* normalizeInput returns null and navigateInput performs no navigation:
\* neither loadURL nor shell.openExternal is called and the status is
\* unchanged.
C4_BlankInputNoNavigation ==
  [][ (NavigateStep /\ IsBlank(args[1])) =>
        /\ result' = Null
        /\ UNCHANGED <<loadURLCalls, openExternalCalls, status, pending, viewUrl>> ]_vars

\* navigateInput returned on a non-empty white-space input while a page was
\* loading.
C4_Witness ==
  /\ pc = "return"
  /\ fn = "navigateInput"
  /\ args[1] = Str(<<" ", "\t", "\n", " ">>)
  /\ result = Null
  /\ status = "Loading..."
  /\ pending # {}

(***************************************************************************)
(* Claims about the routing functions.                                     *)
(***************************************************************************)
\* The scheme of a target as the router reads it: the lower-cased match of
\* SCHEME_RE at the start of the string, <<>> when there is none.
TargetScheme(t) == IF SchemeEnd(t) > 0 THEN toLowerCase(SubSeq(t, 1, SchemeEnd(t) - 1)) ELSE <<>>

\* Both URLs parse, their origins are equal and not opaque.
SameTupleOrigin(c, t) ==
  /\ Origin(t).ok
  /\ Origin(c).ok
  /\ Origin(t).origin # <<"n", "u", "l", "l">>
  /\ Origin(t).origin = Origin(c).origin

\* C12: allowInPageNavigation returns true exactly when the target's scheme
\* is about or data, or it is blob and the target's origin equals the current
\* view's origin with both origins non-opaque; a blob: target of another
\* origin, or a view URL that fails to parse, never yields true.
C12_InPageAllowance ==
  ReturnedFrom("allowInPageNavigation") =>
    /\ result = Bool(\/ TargetScheme(args[2]) \in {<<"a", "b", "o", "u", "t">>, <<"d", "a", "t", "a">>}
                     \/ /\ TargetScheme(args[2]) = <<"b", "l", "o", "b">>
                        /\ SameTupleOrigin(args[1], args[2]))
    /\ (TargetScheme(args[2]) = <<"b", "l", "o", "b">> /\ ~Origin(args[1]).ok) => result = Bool(FALSE)

\* A blob: target written in upper case, with the default port spelled out,
\* was allowed in a view of the same origin.
C12_Witness ==
  /\ ReturnedFrom("allowInPageNavigation")
  /\ args = <<<<"h", "t", "t", "p", "s", ":", "/", "/", "e", "x", "a", "m", "p", "l", "e", ".", "c", "o", "m", "/">>, <<"B", "L", "O", "B", ":", "h", "t", "t", "p", "s", ":", "/", "/", "E", "X", "A", "M", "P", "L", "E", ".", "c", "o", "m", ":", "4", "4", "3", "/", "u", "?", "q", "#", "f">>>>
  /\ result = Bool(TRUE)

(***************************************************************************)
(* Claims about routing: the address bar, will-navigate and window.open.   *)
(***************************************************************************)
\* Steps in which the "will-navigate" and the window-open handler run on
\* args[1].
WillNavigateStep == pc = "call" /\ fn = "willNavigate" /\ pc' = "return"

WindowOpenStep == pc = "call" /\ fn = "windowOpenHandler" /\ pc' = "return"

\* The rule for a URL that goes to the operating system.
ExternalByRule(t) ==
  /\ TargetScheme(t) # <<>>
  /\ TargetScheme(t) \notin {<<"h", "t", "t", "p">>, <<"h", "t", "t", "p", "s">>, <<"a", "b", "o", "u", "t">>, <<"b", "l", "o", "b">>, <<"d", "a", "t", "a">>}
  /\ \/ startsWith(SubSeq(t, SchemeEnd(t) + 1, Len(t)), <<"/", "/">>)
     \/ TargetScheme(t) \in {<<"m", "a", "i", "l", "t", "o">>, <<"t", "e", "l">>, <<"s", "m", "s">>}

\* The step called shell.openExternal(t) once and loadURL not at all.
HandedToOS(t) ==
  /\ openExternalCalls' = openExternalCalls + 1
  /\ loadURLCalls' = loadURLCalls
  /\ \E p \in pending' \ pending : p.op = "openExternal" /\ p.url = t

\* The step called loadURL(t) once and shell.openExternal not at all.
LoadedInView(t) ==
  /\ loadURLCalls' = loadURLCalls + 1
  /\ openExternalCalls' = openExternalCalls
  /\ \E p \in pending' \ pending : p.op = "loadURL" /\ p.url = t

\* C13: a target URL is handed to the OS (shell.openExternal, from the
\* address bar, will-navigate and window.open) if and only if it has a scheme,
\* the lower-cased scheme is not http, https, about, blob or data, and either
\* "//" follows the scheme or the scheme is mailto, tel or sms; every other
\* URL stays in the view: it is loaded, or its navigation is not prevented,
\* and shell.openExternal is not called.
C13_ExternalIffRule ==
  [][ /\ (NavigateStep /\ result'.t = "string") =>
           IF ExternalByRule(result'.s) THEN HandedToOS(result'.s)
           ELSE LoadedInView(result'.s)
      /\ WillNavigateStep =>
           IF ExternalByRule(args[1])
           THEN result'.prevented /\ HandedToOS(args[1])
           ELSE /\ ~result'.prevented
                /\ openExternalCalls' = openExternalCalls
                /\ loadURLCalls' = loadURLCalls
      /\ (WindowOpenStep /\ args[1] # <<>>) =>
           IF ExternalByRule(args[1]) THEN HandedToOS(args[1])
           ELSE LoadedInView(args[1]) ]_vars

\* The page navigated to a URL of a custom scheme with an authority; the
\* navigation was prevented and the URL handed to the OS.
C13_Witness ==
  /\ ReturnedFrom("willNavigate")
  /\ args = <<<<"s", "t", "e", "a", "m", ":", "/", "/", "r", "u", "n", "/", "1">>>>
  /\ result = [prevented |-> TRUE]
  /\ openExternalCalls = 1
  /\ \E p \in pending : p.op = "openExternal" /\ p.url = <<"s", "t", "e", "a", "m", ":", "/", "/", "r", "u", "n", "/", "1">>

\* C14: the window-open handler returns action "deny" for every URL, the
\* empty one included; for a non-empty URL it loads the URL in the existing
\* view or hands it to the OS, and for the empty one it does neither; the
\* number of windows never changes.
C14_PopupsNeverOpenWindows ==
  /\ [][ WindowOpenStep =>
           /\ result' = [action |-> "deny"]
           /\ IF args[1] = <<>>
              THEN UNCHANGED <<loadURLCalls, openExternalCalls, pending>>
              ELSE LoadedInView(args[1]) \/ HandedToOS(args[1]) ]_vars
  /\ [][windows' = windows]_vars

\* window.open("about:blank") was denied and loaded in the one window's view.
C14_Witness ==
  /\ ReturnedFrom("windowOpenHandler")
  /\ args = <<<<"a", "b", "o", "u", "t", ":", "b", "l", "a", "n", "k">>>>
  /\ result = [action |-> "deny"]
  /\ windows = 1
  /\ loadURLCalls = 2
  /\ \E p \in pending : p.op = "loadURL" /\ p.url = <<"a", "b", "o", "u", "t", ":", "b", "l", "a", "n", "k">>

\* The hand-off numbered i has not settled.
ExternalPending(i) == \E p \in pending : p.id = i /\ p.op = "openExternal"

ExternalStatuses == {"Opened external link in system app", "Error: Unable to open external link"}

\* C15: when address-bar input resolves to an externally routed URL, the
\* step does not call loadURL and leaves the view's URL as it is, and so does
\* the settling of the hand-off; the status then becomes "Opened external
\* link in system app" or an "Error: ..." message, in every run in which the
\* handlers, which are synchronous, return.
C15_ExternalHandoffLeavesView ==
  /\ [][ /\ (NavigateStep /\ result'.t = "string" /\ ExternalByRule(result'.s)) =>
              /\ HandedToOS(result'.s)
              /\ UNCHANGED <<viewUrl, status>>
         /\ (\E p \in pending : p.op = "openExternal" /\ p \notin pending') =>
              /\ UNCHANGED <<viewUrl, loadURLCalls>>
              /\ status' \in ExternalStatuses ]_vars
  /\ ([]<>(pc # "call")) =>
       \A i \in 1..MaxCalls :
         ExternalPending(i) ~> (~ExternalPending(i) /\ status \in ExternalStatuses)

\* mailto:a@b.c was typed while the default page was shown; the hand-off
\* settled, the view still shows the default page and loadURL was called once,
\* by createWindow.
C15_Witness ==
  /\ fn = "navigateInput"
  /\ args = <<Str(<<"m", "a", "i", "l", "t", "o", ":", "a", "@", "b", ".", "c">>)>>
  /\ result = Str(<<"m", "a", "i", "l", "t", "o", ":", "a", "@", "b", ".", "c">>)
  /\ status = "Opened external link in system app"
  /\ viewUrl = DEFAULT_URL
  /\ loadURLCalls = 1
  /\ pending = {}

\* C19: for a navigation raised by the page (will-navigate or window.open),
\* shell.openExternal is called only when the target's scheme is mailto, tel
\* or sms.
C19_OnlyAllowlistEscapes ==
  [][ ((WillNavigateStep \/ WindowOpenStep) /\ openExternalCalls' # openExternalCalls) =>
         TargetScheme(args[1]) \in {<<"m", "a", "i", "l", "t", "o">>, <<"t", "e", "l">>, <<"s", "m", "s">>} ]_vars

\* C19 as the code has it: for a navigation raised by the page,
\* shell.openExternal is called only when the target's scheme is not internal
\* and either "//" follows it or it is mailto, tel or sms; a target of any
\* other scheme without "//" is not handed to the OS.
C19_OnlyRuleEscapes ==
  [][ (WillNavigateStep \/ WindowOpenStep) =>
        /\ openExternalCalls' # openExternalCalls => ExternalByRule(args[1])
        /\ ( /\ TargetScheme(args[1]) \notin {<<"m", "a", "i", "l", "t", "o">>, <<"t", "e", "l">>, <<"s", "m", "s">>}
             /\ ~startsWith(SubSeq(args[1], SchemeEnd(args[1]) + 1, Len(args[1])), <<"/", "/">>) )
           => openExternalCalls' = openExternalCalls ]_vars

\* window.open on a URL of a custom scheme with an authority was denied and
\* the URL handed to the OS.
C19_Witness ==
  /\ ReturnedFrom("windowOpenHandler")
  /\ args = <<<<"s", "t", "e", "a", "m", ":", "/", "/", "r", "u", "n", "/", "1">>>>
  /\ result = [action |-> "deny"]
  /\ openExternalCalls = 1
  /\ loadURLCalls = 1

\* C20: for a blob: target whose origin differs from the view's origin or is
\* opaque, the will-navigate handler prevents the navigation and the
\* window-open handler does not load it in the view.
C20_BlobOnlySameOrigin ==
  [][ ( /\ WillNavigateStep \/ WindowOpenStep
        /\ TargetScheme(args[1]) = <<"b", "l", "o", "b">>
        /\ ~SameTupleOrigin(viewUrl, args[1]) )
      => /\ WillNavigateStep => result'.prevented
         /\ WindowOpenStep => loadURLCalls' = loadURLCalls ]_vars

(***************************************************************************)
(* Claims about the zoom menu.                                             *)
(***************************************************************************)
\* C16: the Zoom In, Zoom Out and Actual Size menu actions change the view's
\* zoom factor only: Zoom In raises it unless it is 3 already, Zoom Out lowers
\* it unless it is 0.5 already, Actual Size sets it to exactly 1, it stays
\* within [0.5, 3], and the app UI window's zoom factor stays at 1.
C16_ZoomMenuChangesViewOnly ==
  /\ zoomFactor.app = ZOOM_DEFAULT_FACTOR
  /\ [][ /\ zoomFactor'.app = ZOOM_DEFAULT_FACTOR
         /\ zoomFactor'.view >= ZOOM_MIN_FACTOR
         /\ zoomFactor'.view <= ZOOM_MAX_FACTOR
         /\ (fn' = "adjustBrowserViewZoom" /\ args' = <<"in">>) =>
              IF zoomFactor.view = ZOOM_MAX_FACTOR
              THEN zoomFactor'.view = ZOOM_MAX_FACTOR
              ELSE zoomFactor'.view > zoomFactor.view
         /\ (fn' = "adjustBrowserViewZoom" /\ args' = <<"out">>) =>
              IF zoomFactor.view = ZOOM_MIN_FACTOR
              THEN zoomFactor'.view = ZOOM_MIN_FACTOR
              ELSE zoomFactor'.view < zoomFactor.view
         /\ fn' = "setBrowserViewZoomFactor" => zoomFactor'.view = ZOOM_DEFAULT_FACTOR
         /\ UNCHANGED <<adblockVars, navVars>> ]_vars

\* Zoom In has brought the view to the greatest factor, past the last step
\* below it, with the app UI at 1.
C16_Witness ==
  /\ fn = "adjustBrowserViewZoom"
  /\ args = <<"in">>
  /\ zoomFactor = [view |-> ZOOM_MAX_FACTOR, app |-> ZOOM_DEFAULT_FACTOR]

(***************************************************************************)
(* Claims about the private/loopback test of the resolver.                 *)
(***************************************************************************)
\* The host a trimmed input starts with: up to the first "]" when it opens
\* with "[", up to the first ":", "/", "?" or "#" otherwise.
InputHost(v) ==
  IF v # <<>> /\ v[1] = "["
  THEN SubSeq(v, 1, FirstIn(v, 1, {"]"}))
  ELSE SubSeq(v, 1, FirstIn(v, 1, {":", "/", "?", "#"}) - 1)

\* What follows the host is nothing, a port, a suffix, or a port and a suffix,
\* without a space or a line terminator.
IsHostInput(v) ==
  LET rest == SubSeq(v, Len(InputHost(v)) + 1, Len(v))
      e == IF rest # <<>> /\ rest[1] = ":" THEN FirstNotIn(rest, 2, Digits) ELSE 1
  IN /\ InputHost(v) # <<>>
     /\ e # 2
     /\ e = Len(rest) + 1 \/ rest[e] \in {"/", "?", "#"}
     /\ Range(v) \cap ({" "} \cup LineTerminators) = {}

\* The address of a bracketed host, without its zone, in lower case.
Ipv6Address(host) == toLowerCase(SubSeq(host, 2, FirstIn(host, 1, {"%", "]"}) - 1))

\* C21: a bracketed IPv6 host whose address begins with "::", other than "::"
\* and "::1", is not private/loopback: the resolver gives it https://.
C21_LeadingGapIsPublic ==
  (/\ Returned
   /\ IsHostInput(Value)
   /\ parseHostInfo(InputHost(Value)).type = "ipv6"
   /\ startsWith(Ipv6Address(InputHost(Value)), <<":", ":">>)
   /\ Ipv6Address(InputHost(Value)) \notin { <<":", ":">>, <<":", ":", "1">> })
    => result = Str(<<"h", "t", "t", "p", "s", ":", "/", "/">> \o Value)

\* C22: an input with a whitespace character anywhere inside it is never
\* resolved as a host:port shorthand or as a bare host, that is, it is never
\* given http:// or https:// in front.
C22_NoWhitespaceInHostInput ==
  (Returned /\ Range(Value) \cap WhiteSpace # {})
    => result \notin { Str(<<"h", "t", "t", "p", ":", "/", "/">> \o Value), Str(<<"h", "t", "t", "p", "s", ":", "/", "/">> \o Value) }

\* The octets of a dotted quad are in a private, loopback or link-local range.
InPrivateIpv4Ranges(o) ==
  \/ o[1] \in {0, 10, 127}
  \/ o[1] = 172 /\ o[2] \in 16..31
  \/ o[1] = 192 /\ o[2] = 168
  \/ o[1] = 169 /\ o[2] = 254

\* C23: an input whose host is a four-octet address is given http:// exactly
\* when the first octet is 0, 10 or 127, or the first two are 172.16 to 172.31,
\* 192.168 or 169.254, and https:// for every other address.
C23_PrivateIpv4Exact ==
  (/\ Returned
   /\ IsHostInput(Value)
   /\ parseIpv4(InputHost(Value)) # NoOctets)
    => result = Str((IF InPrivateIpv4Ranges(parseIpv4(InputHost(Value)))
                     THEN <<"h", "t", "t", "p", ":", "/", "/">> ELSE <<"h", "t", "t", "p", "s", ":", "/", "/">>) \o Value)

\* The last address of the 172 range, with a port and a suffix, was given
\* http://.
C23_Witness ==
  /\ Returned
  /\ Value = <<"1", "7", "2", ".", "3", "1", ".", "0", ".", "1", ":", "8", "0", "/", "x", "?", "y", "#", "z">>
  /\ InPrivateIpv4Ranges(parseIpv4(InputHost(Value)))
  /\ result = Str(<<"h", "t", "t", "p", ":", "/", "/", "1", "7", "2", ".", "3", "1", ".", "0", ".", "1", ":", "8", "0", "/", "x", "?", "y", "#", "z">>)

\* The bracketed host has an address of hexadecimal digits, ":" and "." with a
\* ":" in it, that does not begin with "::" unless it is "::" or "::1", and
\* after it nothing or "%" and a zone.
IsZonedIpv6(host) ==
  /\ Len(host) > 2
  /\ host[1] = "["
  /\ host[Len(host)] = "]"
  /\ includes(Ipv6Address(host), ":")
  /\ Range(Ipv6Address(host)) \subseteq HexDigits \cup {":", "."}
  /\ startsWith(Ipv6Address(host), <<":", ":">>) => Ipv6Address(host) \in { <<":", ":">>, <<":", ":", "1">> }
  /\ Range(host) \cap WhiteSpace = {}

\* The first hextet of the address.
FirstHextet(address) == SubSeq(address, 1, FirstIn(address, 1, {":"}) - 1)

\* "::", "::1", or a first hextet in fc00..fdff or fe80..febf.
InLocalIpv6Ranges(address) ==
  \/ address \in { <<":", ":">>, <<":", ":", "1">> }
  \/ /\ FirstHextet(address) # <<>>
     /\ Range(FirstHextet(address)) \subseteq HexDigits
     /\ \/ HexValue(FirstHextet(address)) \in 64512..65023
        \/ HexValue(FirstHextet(address)) \in 65152..65215

\* C24 as stated: an input whose host is a bracketed IPv6 address not beginning
\* with "::" (or "::" or "::1" itself), with or without a zone after "%", is
\* given http:// exactly when the address is "::" or "::1" or its first hextet
\* is in fc00..fdff or fe80..febf, and https:// otherwise.
C24_ZoneStripped ==
  (/\ Returned
   /\ IsHostInput(Value)
   /\ IsZonedIpv6(InputHost(Value)))
    => result = Str((IF InLocalIpv6Ranges(Ipv6Address(InputHost(Value)))
                     THEN <<"h", "t", "t", "p", ":", "/", "/">> ELSE <<"h", "t", "t", "p", "s", ":", "/", "/">>) \o Value)

\* The part of C24 that the code keeps: the same for the hosts whose zone, if
\* any, is made of hexadecimal digits, ":", "." and "%".
C24_ZoneOfAddressCharacters ==
  (/\ Returned
   /\ IsHostInput(Value)
   /\ IsZonedIpv6(InputHost(Value))
   /\ Range(SubSeq(InputHost(Value), 2, Len(InputHost(Value)) - 1)) \subseteq Ipv6Chars)
    => result = Str((IF InLocalIpv6Ranges(Ipv6Address(InputHost(Value)))
                     THEN <<"h", "t", "t", "p", ":", "/", "/">> ELSE <<"h", "t", "t", "p", "s", ":", "/", "/">>) \o Value)

(***************************************************************************)
(* Claims about the host classifier.                                       *)
(***************************************************************************)
\* The ASCII letters of s in lower case, every other code unit as it is.
AsciiLowerCase(s) == [i \in 1..Len(s) |-> IF s[i] \in UpperSet THEN LowerOf[s[i]] ELSE s[i]]

\* Exactly four groups between dots, each of decimal digits and at most 255.
IsDottedQuad(host) ==
  /\ Len(split(host, ".")) = 4
  /\ \A i \in 1..4 :
       /\ split(host, ".")[i] # <<>>
       /\ Range(split(host, ".")[i]) \subseteq Digits
       /\ Number(split(host, ".")[i]) <= 255

\* A bracketed token with a ":" between the brackets, over 0-9a-f:.% in either
\* case.
IsBracketedAddress(host) ==
  /\ Len(host) > 2
  /\ host[1] = "["
  /\ host[Len(host)] = "]"
  /\ \E i \in 2..(Len(host) - 1) : host[i] = ":"
  /\ \A i \in 2..(Len(host) - 1) : AsciiLowerCase(<<host[i]>>)[1] \in HexDigits \cup {":", ".", "%"}

\* A dotted token of at most 253 code units whose labels are valid.
IsDottedName(host) ==
  /\ includes(host, ".")
  /\ Len(host) <= 253
  /\ \A i \in 1..Len(split(host, ".")) : ValidLabel(split(host, ".")[i])

\* The kind the rules of the claim give a token, the first rule that matches.
KindByRule(host) ==
  IF AsciiLowerCase(host) = <<"l", "o", "c", "a", "l", "h", "o", "s", "t">> THEN "localhost"
  ELSE IF IsDottedQuad(host) THEN "ipv4"
  ELSE IF IsBracketedAddress(host) THEN "ipv6"
  ELSE IF IsDottedName(host) THEN "hostname"
  ELSE "null"

\* C25 as stated: the classifier gives every token the kind of the first rule
\* that matches it, localhost, IPv4, IPv6, Hostname, and null when none does;
\* so a dotless token that is neither localhost nor a bracketed address, and a
\* token with an empty label, is null.
C25_FirstMatchingRule ==
  ReturnedFrom("parseHostInfo") =>
    /\ result.type = KindByRule(args[1].s)
    /\ (~includes(args[1].s, ".") /\ result.type \notin {"localhost", "ipv6"}) => result = NoHostInfo
    /\ (\E i \in 1..Len(split(args[1].s, ".")) : split(args[1].s, ".")[i] = <<>>)
         => result.type \in {"null", "ipv6"}

\* The part of C25 that the code keeps: the same for the tokens made of ASCII
\* characters.
C25_AsciiTokens ==
  (ReturnedFrom("parseHostInfo") /\ KelvinSign \notin Range(args[1].s)) =>
    result.type = KindByRule(args[1].s)

(***************************************************************************)
(* Claims about bare hosts and about the resolver's results.               *)
(***************************************************************************)
\* v is a host that classifies, followed by nothing or by a path, query or
\* fragment, with no port, no space and no scheme prefix.
IsBareHostInput(v) ==
  /\ InputHost(v) # <<>>
  /\ parseHostInfo(InputHost(v)) # NoHostInfo
  /\ Len(v) > Len(InputHost(v)) => v[Len(InputHost(v)) + 1] \in {"/", "?", "#"}
  /\ ~includes(v, " ")
  /\ ~HasSchemePrefix(v)

C27_NeverThrows == Returned => result.t # "throw"

\* C30: with a search template that begins with a scheme, every result of
\* normalizeInput that is not null begins with a scheme, so that getScheme
\* finds one, and is "http://" + input, "https://" + input, the input itself
\* or the template + the percent-encoded input (the input trimmed).
C30_ResultHasScheme ==
  (Returned /\ result.t = "string" /\ HasSchemePrefix(Template)) =>
    /\ HasSchemePrefix(result.s)
    /\ getScheme(result.s) # Null
    /\ \/ result.s = <<"h", "t", "t", "p", ":", "/", "/">> \o Value
       \/ result.s = <<"h", "t", "t", "p", "s", ":", "/", "/">> \o Value
       \/ result.s = Value
       \/ LoneSurrogate \notin Range(Value) /\ result.s = Template \o EncodeUnits(Value)

\* Free text was turned into a search URL on the caller's template.
C30_Witness ==
  /\ Returned
  /\ args[2] = <<"h", "t", "t", "p", "s", ":", "/", "/", "s", "e", "a", "r", "c", "h", ".", "e", "x", "a", "m", "p", "l", "e", "/", "?", "q", "=">>
  /\ includes(Value, " ")
  /\ LoneSurrogate \notin Range(Value)
  /\ result = Str(<<"h", "t", "t", "p", "s", ":", "/", "/", "s", "e", "a", "r", "c", "h", ".", "e", "x", "a", "m", "p", "l", "e", "/", "?", "q", "=">> \o EncodeUnits(Value))
  /\ getScheme(result.s) = Str(<<"h", "t", "t", "p", "s">>)

(***************************************************************************)
(* Claims about the handler's answers.                                     *)
(***************************************************************************)
\* C28: on every path through the onBeforeRequest handler the callback is
\* called exactly once, with cancel true or false: a request handed to the
\* handler is unanswered until the handler runs and answered once when it ends.
C28_AnsweredExactlyOnce ==
  /\ [](fn = "onBeforeRequest" =>
          IF pc = "call" THEN result = <<>>
          ELSE Len(result) = 1 /\ result[1] \in [cancel : BOOLEAN])
  /\ [][HandlerStep => (Len(result') = 1 /\ result'[1] \in [cancel : BOOLEAN])]_vars

\* A main-frame request for a blocked host from another site, with the filter
\* on, was answered once.
C28_Witness ==
  /\ fn = "onBeforeRequest"
  /\ pc = "return"
  /\ adblockState.enabled
  /\ args[1].resourceType = "mainFrame"
  /\ args[1].url = <<"h", "t", "t", "p", "s", ":", "/", "/", "d", "o", "u", "b", "l", "e", "c", "l", "i", "c", "k", ".", "n", "e", "t", "/", "a", "d", ".", "j", "s">>
  /\ args[1].initiator = Str(<<"h", "t", "t", "p", "s", ":", "/", "/", "n", "e", "w", "s", ".", "e", "x", "a", "m", "p", "l", "e">>)
  /\ result = <<[cancel |-> FALSE]>>

(***************************************************************************)
(* Claims about the window contexts                                        *)
(***************************************************************************)
WindowState == [windowContexts |-> windowContexts, contexts |-> contexts]

IsIpcStep == fn' \in IPC_CHANNELS /\ pc' = "return" /\ Len(args') = 2

\* C29: windowContexts holds exactly the contexts created and not yet cleaned
\* up; cleanupWindowContext removes the context, a second call changes
\* nothing and the view's web contents is destroyed at most once; a browser:*
\* request from the renderer of a cleaned-up window returns null and neither
\* navigates, reloads nor reads the view.
C29_ContextsOfOpenWindows ==
  /\ [](/\ windowContexts = {c \in 1..Len(contexts) : ~contexts[c].cleanedUp}
        /\ \A c \in 1..Len(contexts) :
             /\ contexts[c].viewDestroyed <= 1
             /\ contexts[c].cleanedUp => ~contexts[c].viewLive
             /\ c \notin cleanupWindowContext(WindowState, c).windowContexts
             /\ cleanupWindowContext(cleanupWindowContext(WindowState, c), c)
                  = cleanupWindowContext(WindowState, c)
             /\ contexts[c].cleanedUp => cleanupWindowContext(WindowState, c) = WindowState)
  /\ [][(IsIpcStep /\ contexts[args'[1]].cleanedUp)
          => (result' = Null /\ UNCHANGED <<navVars, windowVars, adblockVars, zoomFactor>>)]_vars

C29_Witness ==
  /\ fn = "browser:navigate"
  /\ pc = "return"
  /\ args = <<1, Str(<<"e", "x", "a", "m", "p", "l", "e", ".", "c", "o", "m">>)>>
  /\ result = Null
  /\ Len(contexts) = 2
  /\ contexts[1].cleanedUp
  /\ contexts[1].viewDestroyed = 1
  /\ windowContexts = {2}

====
